---- MODULE Spec2Model ----
(***************************************************************************)
(* Model of the CV experience pipeline of CVTool:                          *)
(*   main._mark_sections, experience_parser.extract_experience_lines,      *)
(*   main._structure_experience_from_lines, the override of the LLM's      *)
(*   "Experience" field in main.main, formatter.format_experience and      *)
(*   document_generator.sort_experiences / parse_end_date.                 *)
(*                                                                         *)
(* Text is modelled as a sequence of tokens.  A token stands for a maximal *)
(* run of characters of one class: a word of letters ("Acme"), a number    *)
(* ("2012", "09"), or a single punctuation / whitespace character.  The    *)
(* regular expressions of the source are kept as regular expressions over  *)
(* tokens and evaluated by the matcher Ends below.                         *)
(***************************************************************************)
EXTENDS Integers, Sequences, FiniteSets, TLC

-----------------------------------------------------------------------------
(* Tokens and character classes                                            *)

SP == " "        \* a blank
NL == "NL"       \* a line break "\n"
CR == "CR"       \* a carriage return "\r"
HY == "-"        \* ASCII hyphen
EN == "EN"       \* en dash / em dash (non-ASCII dash)
LP == "("
RP == ")"
LB == "["
RB == "]"
SL == "/"
BS == "BSL"      \* a backslash
DOT == "."
BUL == "BUL"     \* a bullet glyph other than a dash (non-ASCII)
EQ == "==="      \* three equals signs
AMP == "&"

WS == {SP, NL}                       \* \s
DASH == {HY, EN}                     \* [–—-]
YEAR == {"1991", "2004", "2012", "2014", "2015", "2020"}      \* \d{4}
NUM12 == {"1", "09", "31"}           \* \d{1,2}
MON3 == {"Jan", "Sep", "May"}        \* three-letter month abbreviations
MONFULL == {"January", "May"}        \* full month names
MONLONG == {"Sept", "January"}       \* a month prefix followed by letters
UPPERWORDS == {"Acme", "Eng", "Led", "Grew", "BSc", "Earlier", "Career",
               "Experience", "Skills", "Technical", "Core", "Education",
               "Summary", "Profile", "Qualifications", "Projects",
               "Objective", "Present", "Current", "Now", "Ongoing", "Work",
               "Certifications", "N", "A"} \cup MON3 \cup MONFULL \cup MONLONG
LOWERWORDS == {"acme", "eng", "led", "grew", "bsc", "earlier", "career",
               "experience", "skills", "technical", "core", "education",
               "summary", "profile", "qualifications", "projects",
               "objective", "present", "current", "now", "ongoing", "work",
               "certifications", "n", "a", "jan", "sep", "may", "january",
               "sept", "professional", "employment", "history", "relevant",
               "publications", "key", "certificates"}
LETTERS == UPPERWORDS \cup LOWERWORDS          \* [A-Za-z]+
NONASCII == {EN, BUL}                \* characters outside ord 32..126
\* words matching (?:Jan|Feb|...|Dec)[a-z]* under re.IGNORECASE
MONTHWORDS == MON3 \cup MONFULL \cup MONLONG \cup {"jan", "sep", "may", "january", "sept"}

\* str.lower() on one token
Lower(t) ==
  CASE t = "Acme" -> "acme" [] t = "Eng" -> "eng" [] t = "Led" -> "led"
    [] t = "Grew" -> "grew" [] t = "BSc" -> "bsc"
    [] t = "Earlier" -> "earlier" [] t = "Career" -> "career"
    [] t = "Experience" -> "experience" [] t = "Skills" -> "skills"
    [] t = "Technical" -> "technical" [] t = "Core" -> "core"
    [] t = "Education" -> "education" [] t = "Summary" -> "summary"
    [] t = "Profile" -> "profile" [] t = "Qualifications" -> "qualifications"
    [] t = "Projects" -> "projects" [] t = "Objective" -> "objective"
    [] t = "Present" -> "present" [] t = "Current" -> "current"
    [] t = "Now" -> "now" [] t = "Ongoing" -> "ongoing" [] t = "Work" -> "work"
    [] t = "Certifications" -> "certifications"
    [] t = "N" -> "n" [] t = "A" -> "a"
    [] t = "Jan" -> "jan" [] t = "Sep" -> "sep" [] t = "May" -> "may"
    [] t = "January" -> "january" [] t = "Sept" -> "sept"
    [] OTHER -> t

\* str.lower() on a string
LowerStr(s) == [k \in 1..Len(s) |-> Lower(s[k])]

-----------------------------------------------------------------------------
(* String helpers (Python str methods)                                     *)

Min(S) == CHOOSE x \in S : \A y \in S : x <= y
Max(S) == CHOOSE x \in S : \A y \in S : x >= y

\* s[a:b] with 0-based offsets a <= b
Slice(s, a, b) == SubSeq(s, a + 1, b)

\* str.lstrip()
LStrip(s) ==
  LET nz == {k \in 1..Len(s) : s[k] \notin WS}
  IN  IF nz = {} THEN <<>> ELSE SubSeq(s, Min(nz), Len(s))

\* str.rstrip()
RStrip(s) ==
  LET nz == {k \in 1..Len(s) : s[k] \notin WS}
  IN  IF nz = {} THEN <<>> ELSE SubSeq(s, 1, Max(nz))

\* str.strip()
Strip(s) == LStrip(RStrip(s))

\* str.splitlines(): the lines of s, without the line breaks
RECURSIVE splitlines(_)
splitlines(s) ==
  IF s = <<>> THEN <<>>
  ELSE LET nls == {k \in 1..Len(s) : s[k] = NL}
       IN  IF nls = {} THEN <<s>>
           ELSE <<SubSeq(s, 1, Min(nls) - 1)>>
                  \o splitlines(SubSeq(s, Min(nls) + 1, Len(s)))

\* str.find(sub): 0-based offset of the first occurrence, or -1
Find(s, sub) ==
  LET occ == {p \in 0..(Len(s) - Len(sub)) :
                 SubSeq(s, p + 1, p + Len(sub)) = sub}
  IN  IF occ = {} THEN -1 ELSE Min(occ)

\* re.sub(r'[\[\]]', '', s)
RECURSIVE RemoveBrackets(_)
RemoveBrackets(s) ==
  IF s = <<>> THEN <<>>
  ELSE IF Head(s) \in {LB, RB} THEN RemoveBrackets(Tail(s))
       ELSE <<Head(s)>> \o RemoveBrackets(Tail(s))

\* "sep".join(parts)
RECURSIVE Join(_, _)
Join(parts, sep) ==
  IF parts = <<>> THEN <<>>
  ELSE IF Len(parts) = 1 THEN parts[1]
       ELSE parts[1] \o sep \o Join(Tail(parts), sep)

-----------------------------------------------------------------------------
(* Regular expressions over tokens                                         *)

Tok(set)  == [t |-> "tok", set |-> set]      \* one token of a class
CI(w)     == [t |-> "ci", w |-> w]           \* a word, re.IGNORECASE
AnyCh     == [t |-> "any"]                   \* .  (anything but a line break)
Bol       == [t |-> "bol"]                   \* ^
Eol       == [t |-> "eol"]                   \* $
Cat(ps)   == [t |-> "cat", ps |-> ps]        \* concatenation
Alt(as)   == [t |-> "alt", ps |-> as]        \* a|b|...
Star(r)   == [t |-> "star", r |-> r]         \* r*
Plus(r)   == [t |-> "cat", ps |-> <<r, [t |-> "star", r |-> r]>>]   \* r+
Opt(r)    == [t |-> "alt", ps |-> <<r, [t |-> "cat", ps |-> <<>>]>>]  \* r?

\* The offsets at which a match of r that starts at one of the offsets in
\* `from` can end (offsets count the tokens consumed, 0..Len(s)).
RECURSIVE Ends(_, _, _)
Ends(r, s, from) ==
  IF from = {} THEN {}
  ELSE CASE r.t = "tok" -> {i + 1 : i \in {j \in from : j < Len(s) /\ s[j + 1] \in r.set}}
         [] r.t = "ci"  -> {i + 1 : i \in {j \in from : j < Len(s) /\ Lower(s[j + 1]) = r.w}}
         [] r.t = "any" -> {i + 1 : i \in {j \in from : j < Len(s) /\ s[j + 1] # NL}}
         [] r.t = "bol" -> from \cap {0}
         [] r.t = "eol" -> {j \in from : j = Len(s) \/ (j = Len(s) - 1 /\ s[Len(s)] = NL)}
         [] r.t = "cat" -> IF r.ps = <<>> THEN from
                           ELSE Ends([t |-> "cat", ps |-> Tail(r.ps)], s,
                                     Ends(Head(r.ps), s, from))
         [] r.t = "alt" -> UNION {Ends(r.ps[k], s, from) : k \in 1..Len(r.ps)}
         [] r.t = "star" -> LET nxt == Ends(r.r, s, from) \ from
                            IN  from \cup Ends(r, s, nxt)

\* pattern.match(s): a match starting at offset 0
Matches(r, s) == Ends(r, s, {0}) # {}

\* pattern.search(s): the offset of the leftmost match, or -1
SearchFrom(r, s, pos) ==
  LET st == {p \in pos..Len(s) : Ends(r, s, {p}) # {}}
  IN  IF st = {} THEN -1 ELSE Min(st)

-----------------------------------------------------------------------------
(* main.py: section markers                                                *)

ws == Tok(WS)

\* r"\[?\s*Word\s*\]?"
Bracketed(w) == Cat(<<Opt(Tok({LB})), Star(ws), CI(w), Star(ws), Opt(Tok({RB}))>>)
\* r"First\s+Second"
TwoWords(a, b) == Cat(<<CI(a), Plus(ws), CI(b)>>)

\* the order in which the synonyms dict is iterated
SECTIONS == <<"Summary", "Skills", "Experience", "Education", "Certifications">>

synonyms(sec) ==
  CASE sec = "Summary" ->
         <<Bracketed("summary"), CI("profile"), TwoWords("professional", "summary")>>
    [] sec = "Skills" ->
         <<Bracketed("skills"), TwoWords("technical", "skills"),
           TwoWords("core", "skills"), TwoWords("key", "skills")>>
    [] sec = "Experience" ->
         <<Bracketed("experience"), TwoWords("professional", "experience"),
           TwoWords("work", "experience"), TwoWords("employment", "history"),
           TwoWords("career", "history"), TwoWords("relevant", "experience"),
           TwoWords("career", "summary")>>
    [] sec = "Education" -> <<Bracketed("education")>>
    [] sec = "Certifications" ->
         <<Bracketed("certifications"), CI("qualifications"), CI("certificates")>>

\* section_config.py: the sections of SECTION_SYNONYMS and their patterns
CONFIG_SECTIONS ==
  <<"Summary", "Skills", "Experience", "Education", "Certifications",
    "Interests", "Additional">>

\* r"Additional\s+Experience\s*&\s+Qualifications"
AdditionalExperience ==
  Cat(<<CI("additional"), Plus(ws), CI("experience"), Star(ws), Tok({AMP}),
        Plus(ws), CI("qualifications")>>)

SECTION_SYNONYMS(sec) ==
  CASE sec = "Summary" ->
         <<Bracketed("summary"), CI("profile"), TwoWords("professional", "summary"),
           TwoWords("summary", "profile"), TwoWords("career", "objective")>>
    [] sec = "Skills" ->
         <<Bracketed("skills"), TwoWords("technical", "skills"),
           TwoWords("core", "skills"), TwoWords("key", "skills"),
           Cat(<<CI("skills"), Star(ws), Tok({SL}), Star(ws), CI("capabilities")>>)>>
    [] sec = "Experience" ->
         <<Bracketed("experience"), TwoWords("professional", "experience"),
           TwoWords("work", "experience"), TwoWords("employment", "history"),
           TwoWords("career", "history"), TwoWords("relevant", "experience"),
           Cat(<<CI("recent"), Plus(ws), CI("work"), Plus(ws), CI("experience")>>),
           TwoWords("career", "summary")>>
    [] sec = "Education" -> <<Bracketed("education")>>
    [] sec = "Certifications" ->
         <<Bracketed("certifications"), CI("qualifications"), CI("certificates"),
           AdditionalExperience>>
    [] sec = "Interests" -> <<CI("interests")>>
    [] sec = "Additional" ->
         <<AdditionalExperience, TwoWords("additional", "information")>>

\* pat = r'(^|\n)\s*(?:' + '|'.join(variants) + r')\s*(\n|$)'
SectionPattern(sec) ==
  Cat(<<Alt(<<Bol, Tok({NL})>>), Star(ws), Alt(synonyms(sec)), Star(ws),
        Alt(<<Tok({NL}), Eol>>)>>)

\* f"\n=== {s} ===\n"
MarkerLine(sec) == <<NL, EQ, SP, sec, SP, EQ, NL>>

\* re.sub(pat, repl, s): leftmost non-overlapping matches, each as long as the
\* greedy quantifiers make it, replaced by repl; the scan resumes at the end
\* of the match in s.
RECURSIVE SubFrom(_, _, _, _)
SubFrom(r, s, repl, pos) ==
  LET p == SearchFrom(r, s, pos)
  IN  IF p = -1 THEN Slice(s, pos, Len(s))
      ELSE LET e == Max(Ends(r, s, {p}))
           IN  Slice(s, pos, p) \o repl
                 \o (IF e > p THEN SubFrom(r, s, repl, e)
                     ELSE IF p < Len(s)
                          THEN <<s[p + 1]>> \o SubFrom(r, s, repl, p + 1)
                          ELSE <<>>)

Sub(r, s, repl) == SubFrom(r, s, repl, 0)

RECURSIVE MarkFrom(_, _)
MarkFrom(marked, k) ==
  IF k > Len(SECTIONS) THEN marked
  ELSE MarkFrom(Sub(SectionPattern(SECTIONS[k]), marked, MarkerLine(SECTIONS[k])), k + 1)

_mark_sections(text) ==
  IF text = <<>> THEN <<>> ELSE MarkFrom(text, 1)

-----------------------------------------------------------------------------
(* experience_parser.py                                                    *)

EXPERIENCE_HEADINGS ==
  { <<"experience">>, <<"professional", SP, "experience">>,
    <<"work", SP, "experience">>, <<"employment", SP, "history">>,
    <<"career", SP, "history">>, <<"relevant", SP, "experience">>,
    <<"career", SP, "summary">>, <<LB, "experience", RB>> }

STOP_HEADINGS ==
  { <<"education">>, <<"certifications">>, <<"skills">>,
    <<"technical", SP, "skills">>, <<"summary">>, <<"projects">>,
    <<"publications">>, <<LB, "education", RB>>, <<LB, "certifications", RB>>,
    <<LB, "skills", RB>>, <<LB, "summary", RB>>, <<LB, "projects", RB>>,
    <<LB, "publications", RB>> }

MARKER_START == <<EQ, SP, "Experience", SP, EQ>>

\* r"===\s+[A-Za-z ]+\s+==="
MARKER_PATTERN ==
  Cat(<<Tok({EQ}), Plus(ws), Plus(Tok(LETTERS \cup {SP})), Plus(ws), Tok({EQ})>>)

\* re.sub(r'[\[\]]', '', ln).strip().lower()
HeadingKey(ln) == LowerStr(Strip(RemoveBrackets(ln)))

\* index (0-based) of the first line that is a stop heading, else -1 (None)
_first_stop_index(lines) ==
  LET hits == {k \in 1..Len(lines) : HeadingKey(lines[k]) \in STOP_HEADINGS}
  IN  IF hits = {} THEN -1 ELSE Min(hits) - 1

\* StripAll, but leaving the lines as they are
StripAll_Untrimmed(lines) == lines

\* [ln.strip() for ln in lines]
StripAll(lines) == [k \in 1..Len(lines) |-> Strip(lines[k])]

\* [ln for ln in lines if ln]
NonEmptyOnly(lines) == LET keep(l) == l # <<>> IN SelectSeq(lines, keep)

\* the start offsets of MARKER_PATTERN.finditer(text), scanning from pos
RECURSIVE MarkerStartsFrom(_, _)
MarkerStartsFrom(text, pos) ==
  LET p == SearchFrom(MARKER_PATTERN, text, pos)
  IN  IF p = -1 THEN {}
      ELSE {p} \cup MarkerStartsFrom(text, Max(Ends(MARKER_PATTERN, text, {p})))

_slice_between_markers(text) ==
  IF text = <<>> THEN <<>>
  ELSE LET start_idx == Find(text, MARKER_START)
       IN  IF start_idx = -1 THEN <<>>
           ELSE LET later == {m \in MarkerStartsFrom(text, 0) : m > start_idx}
                    chunk == IF later = {}
                             THEN Slice(text, start_idx + Len(MARKER_START), Len(text))
                             ELSE Slice(text, start_idx + Len(MARKER_START), Min(later))
                    lines == NonEmptyOnly(StripAll(splitlines(chunk)))
                    stop_at == _first_stop_index(lines)
                IN  IF stop_at # -1 THEN SubSeq(lines, 1, stop_at) ELSE lines

\* _slice_by_headings, but slicing from the first line when no Experience
\* heading is found
_slice_by_headings_FromTop(text) ==
  IF text = <<>> THEN <<>>
  ELSE LET lines == StripAll(splitlines(text))
           starts == {k \in 1..Len(lines) : HeadingKey(lines[k]) \in EXPERIENCE_HEADINGS}
           start == IF starts = {} THEN 0 ELSE Min(starts)
           stops == {j \in (start + 1)..Len(lines) :
                        HeadingKey(lines[j]) \in STOP_HEADINGS}
           end == IF stops = {} THEN Len(lines) ELSE Min(stops) - 1
       IN  NonEmptyOnly(SubSeq(lines, start + 1, end))

_slice_by_headings(text) ==
  IF text = <<>> THEN <<>>
  ELSE LET lines == StripAll(splitlines(text))
           starts == {k \in 1..Len(lines) : HeadingKey(lines[k]) \in EXPERIENCE_HEADINGS}
       IN  IF starts = {} THEN <<>>
           ELSE LET start == Min(starts)          \* 0-based index i + 1
                    stops == {j \in (start + 1)..Len(lines) :
                                 HeadingKey(lines[j]) \in STOP_HEADINGS}
                    end == IF stops = {} THEN Len(lines) ELSE Min(stops) - 1
                IN  NonEmptyOnly(SubSeq(lines, start + 1, end))

extract_experience_lines(full_text) ==
  LET lines == _slice_between_markers(full_text)
  IN  IF lines # <<>> THEN lines ELSE _slice_by_headings(full_text)

-----------------------------------------------------------------------------
(* main.py: grouping helpers for structuring Experience                    *)

\* rf"(?:{MONTH}\s+\d{{4}}|\d{{1,2}}/\d{{4}}|\d{{4}})"
DATE_WORD ==
  Alt(<<Cat(<<Tok(MONTHWORDS), Plus(ws), Tok(YEAR)>>),
        Cat(<<Tok(NUM12), Tok({SL}), Tok(YEAR)>>),
        Tok(YEAR)>>)

\* r"(?:Present|Current|Now)", re.IGNORECASE
PRESENT_WORD == Alt(<<CI("present"), CI("current"), CI("now")>>)

\* r"[–—-]"
RANGE_SEP == Tok(DASH)

\* rf"^\s*{DATE_WORD}\s*{RANGE_SEP}\s*(?:{PRESENT_WORD}|{DATE_WORD})(?:.*)?$"
DURATION_LINE_RE ==
  Cat(<<Bol, Star(ws), DATE_WORD, Star(ws), RANGE_SEP, Star(ws),
        Alt(<<PRESENT_WORD, DATE_WORD>>), Opt(Star(AnyCh)), Eol>>)

\* rf"\((\s*{DATE_WORD}\s*{RANGE_SEP}\s*(?:{PRESENT_WORD}|{DATE_WORD})\s*)\)"
PAREN_DURATION_RE ==
  Cat(<<Tok({LP}), Star(ws), DATE_WORD, Star(ws), RANGE_SEP, Star(ws),
        Alt(<<PRESENT_WORD, DATE_WORD>>), Star(ws), Tok({RP})>>)

\* r".+\s[–—-]\s.+"
HEADER_DASH_RE == Cat(<<Plus(AnyCh), ws, Tok(DASH), ws, Plus(AnyCh)>>)

DIGITS == YEAR \cup NUM12                  \* \d+
LETTER1 == {"N", "A", "n", "a"}            \* a single letter [A-Za-z]
GLYPHS == {BUL, HY, EN, "*"}               \* [•\-\*–—·...]

\* r'^\s*(?:[•\-\*...]|\d+[\.\)]|[A-Za-z]\))\s+'
BULLET_RE ==
  Cat(<<Bol, Star(ws),
        Alt(<<Tok(GLYPHS), Cat(<<Tok(DIGITS), Tok({DOT, RP})>>),
              Cat(<<Tok(LETTER1), Tok({RP})>>)>>),
        Plus(ws)>>)

\* BULLET_RE.sub("", s).strip()
strip_bullet(s) == Strip(Sub(BULLET_RE, s, <<>>))

SECTION_NAMES ==
  { <<"technical", SP, "skills">>, <<"skills">>, <<"education">>,
    <<"certifications">>, <<"summary">> }

is_header(s) ==
  LET s_stripped == Strip(s)
  IN  IF Matches(HEADER_DASH_RE, s_stripped) THEN TRUE
      ELSE IF Len(s_stripped) >= 2 /\ Lower(s_stripped[1]) = "earlier"
                /\ s_stripped[2] = SP THEN TRUE
      ELSE IF SearchFrom(PAREN_DURATION_RE, s_stripped, 0) # -1 THEN TRUE
      ELSE IF HeadingKey(s_stripped) \in SECTION_NAMES THEN FALSE
      ELSE FALSE

\* ParenDuration, but with m.group(0): the parentheses included
ParenDuration_Group0(position_text) ==
  LET p == SearchFrom(PAREN_DURATION_RE, position_text, 0)
  IN  IF p = -1 THEN <<>>
      ELSE Strip(Slice(position_text, p,
                       Max(Ends(PAREN_DURATION_RE, position_text, {p}))))

\* m = PAREN_DURATION_RE.search(position_text); m.group(1).strip(), or ""
ParenDuration(position_text) ==
  LET p == SearchFrom(PAREN_DURATION_RE, position_text, 0)
  IN  IF p = -1 THEN <<>>
      ELSE Strip(Slice(position_text, p + 1,
                       Max(Ends(PAREN_DURATION_RE, position_text, {p})) - 1))

is_duration_line(s) == Matches(DURATION_LINE_RE, s)

-----------------------------------------------------------------------------
(* document_generator.py: date resolution                                  *)

\* A datetime is modelled as a number that orders datetimes as Python does:
\* year, month, day, then the time of day t (0 = midnight).
DateTime(y, m, d, t) == ((y * 12 + m) * 32 + d) * 100 + t

\* datetime.min
DATETIME_MIN == DateTime(1, 1, 1, 0)

\* datetime.now(): the date of the run, at a time of day read from the clock
Now(t) == DateTime(2026, 11, 2, t)

\* int() of a token of digits
NumVal(t) ==
  CASE t = "1" -> 1 [] t = "09" -> 9 [] t = "31" -> 31
    [] t = "1991" -> 1991 [] t = "2004" -> 2004 [] t = "2012" -> 2012
    [] t = "2014" -> 2014 [] t = "2015" -> 2015 [] t = "2020" -> 2020

\* the month numbers strptime gives to %b and %B names (case-insensitive);
\* 0 when the word is not such a name
MonthAbbr(t) ==
  CASE Lower(t) = "jan" -> 1 [] Lower(t) = "may" -> 5 [] Lower(t) = "sep" -> 9
    [] OTHER -> 0
MonthFull(t) ==
  CASE Lower(t) = "january" -> 1 [] Lower(t) = "may" -> 5 [] OTHER -> 0

DaysIn(m) == IF m \in {4, 6, 9, 11} THEN 30 ELSE IF m = 2 THEN 28 ELSE 31

\* words of exactly three letters: [A-Za-z]{3}
LEN3 == {"Jan", "Sep", "May", "Led", "Eng", "BSc", "Now",
         "jan", "sep", "may", "led", "eng", "bsc", "now"}

clean_duration_string(duration_str) ==
  LET repl == [k \in 1..Len(duration_str) |->
                 IF duration_str[k] = BS THEN SL ELSE duration_str[k]]
      printable(c) == c \notin NONASCII /\ c # NL
  IN  Strip(SelectSeq(repl, printable))

\* the date_patterns dict, in its order
DATE_FORMATS == <<"%d/%m/%Y", "%m/%Y", "%b %Y", "%B %Y", "%Y">>

date_patterns(fmt) ==
  CASE fmt = "%d/%m/%Y" ->
         Cat(<<Bol, Tok(NUM12), Tok({SL}), Tok(NUM12), Tok({SL}), Tok(YEAR), Eol>>)
    [] fmt = "%m/%Y" -> Cat(<<Bol, Tok(NUM12), Tok({SL}), Tok(YEAR), Eol>>)
    [] fmt = "%b %Y" -> Cat(<<Bol, Tok(LEN3), Tok({SP}), Tok(YEAR), Eol>>)
    [] fmt = "%B %Y" -> Cat(<<Bol, Tok(LETTERS), Tok({SP}), Tok(YEAR), Eol>>)
    [] fmt = "%Y" -> Cat(<<Bol, Tok(YEAR), Eol>>)

\* the first format whose pattern matches, or "" (None)
identify_date_format(date_str) ==
  LET hits == {k \in 1..Len(DATE_FORMATS) :
                  Matches(date_patterns(DATE_FORMATS[k]), date_str)}
  IN  IF hits = {} THEN "" ELSE DATE_FORMATS[Min(hits)]

\* datetime.strptime(s, fmt) for a string that matches the format's pattern;
\* -1 stands for the ValueError strptime raises
strptime(s, fmt) ==
  CASE fmt = "%d/%m/%Y" ->
         LET d == NumVal(s[1])  m == NumVal(s[3])
         IN  IF m \in 1..12 /\ d \in 1..DaysIn(m)
             THEN DateTime(NumVal(s[5]), m, d, 0) ELSE -1
    [] fmt = "%m/%Y" ->
         IF NumVal(s[1]) \in 1..12 THEN DateTime(NumVal(s[3]), NumVal(s[1]), 1, 0)
         ELSE -1
    [] fmt = "%b %Y" ->
         IF MonthAbbr(s[1]) # 0 THEN DateTime(NumVal(s[3]), MonthAbbr(s[1]), 1, 0)
         ELSE -1
    [] fmt = "%B %Y" ->
         IF MonthFull(s[1]) # 0 THEN DateTime(NumVal(s[3]), MonthFull(s[1]), 1, 0)
         ELSE -1
    [] fmt = "%Y" -> DateTime(NumVal(s[1]), 1, 1, 0)

\* r'\s*[-–—]\s*'
SPLIT_RE == Cat(<<Star(ws), Tok(DASH), Star(ws)>>)

\* re.split(pattern, s)
RECURSIVE SplitFrom(_, _, _)
SplitFrom(r, s, pos) ==
  LET p == SearchFrom(r, s, pos)
  IN  IF p = -1 THEN <<Slice(s, pos, Len(s))>>
      ELSE <<Slice(s, pos, p)>> \o SplitFrom(r, s, Max(Ends(r, s, {p})))

present_terms == {"present", "current", "now", "ongoing"}

\* parse_end_date(duration_str); t is the time datetime.now() would read
parse_end_date(duration_str, t) ==
  IF duration_str = <<>> THEN DATETIME_MIN
  ELSE LET cleaned == Strip(clean_duration_string(duration_str))
           parts == SplitFrom(SPLIT_RE, cleaned, 0)
       IN  IF Len(parts) > 2 THEN DATETIME_MIN
           ELSE LET end_str == Strip(IF Len(parts) = 2 THEN parts[2] ELSE parts[1])
                IN  IF Len(end_str) = 1 /\ Lower(end_str[1]) \in present_terms
                    THEN Now(t)
                    ELSE LET date_format == identify_date_format(end_str)
                         IN  IF date_format = "" THEN DATETIME_MIN
                             ELSE IF strptime(end_str, date_format) = -1
                                  THEN DATETIME_MIN      \* except Exception
                                  ELSE strptime(end_str, date_format)

\* the position (1-based) in the sorted list of the element at index j, for
\* sorted(seq, key=..., reverse=True): larger keys first, equal keys in their
\* original order
RankDesc(key, j) ==
  1 + Cardinality({m \in DOMAIN key :
                     key[m] > key[j] \/ (key[m] = key[j] /\ m < j)})

SortedDesc(seq, key) ==
  [r \in 1..Len(seq) |-> seq[CHOOSE j \in 1..Len(seq) : RankDesc(key, j) = r]]

\* document_generator.sort_experiences; now[j] is the clock reading of the
\* j-th parse_end_date call
dg_sort_experiences(experience_data, now) ==
  LET end_date == [j \in 1..Len(experience_data) |->
                     parse_end_date(experience_data[j].Duration, now[j])]
  IN  SortedDesc(experience_data, end_date)

\* The Python values an item's "Duration" can hold: a str, None or an int
PyStr(s) == [type |-> "str", val |-> s]
PyNone == [type |-> "NoneType", val |-> <<>>]
PyInt(k) == [type |-> "int", val |-> <<k>>]

\* bool(v)
Truthy(v) ==
  \/ v.type = "str" /\ v.val # <<>>
  \/ v.type = "int" /\ v.val # <<0>>

\* the try block of parse_end_date on any Python value; -1 stands for an
\* exception raised inside it (clean_duration_string calls str methods, which
\* a truthy value that is not a str does not have: AttributeError)
parse_end_date_try(v, t) ==
  IF ~Truthy(v) THEN DATETIME_MIN
  ELSE IF v.type # "str" THEN -1
  ELSE parse_end_date(v.val, t)

\* parse_end_date on any Python value: except Exception: return datetime.min
parse_end_date_value(v, t) ==
  IF parse_end_date_try(v, t) = -1 THEN DATETIME_MIN ELSE parse_end_date_try(v, t)

-----------------------------------------------------------------------------
(* formatter.py                                                            *)

\* the capture groups of the leftmost DUR_WINDOW_RE match:
\* rf"({DATE_TOKEN})\s*{RANGE_SEP}\s*({PRESENT}|{DATE_TOKEN})"
DUR_WINDOW_RE ==
  Cat(<<DATE_WORD, Star(ws), RANGE_SEP, Star(ws), Alt(<<PRESENT_WORD, DATE_WORD>>)>>)

_extract_date_window(s) ==
  IF Strip(s) = <<>> THEN <<>>                       \* None
  ELSE LET p == SearchFrom(DUR_WINDOW_RE, s, 0)
       IN  IF p = -1 THEN <<>>                        \* None
           ELSE LET e1 == Max(Ends(DATE_WORD, s, {p}))
                    b2 == Max(Ends(Cat(<<Star(ws), RANGE_SEP, Star(ws)>>), s, {e1}))
                    e2 == Max(Ends(Alt(<<PRESENT_WORD, DATE_WORD>>), s, {b2}))
                    start == Slice(s, p, e1)
                    end == IF Ends(PRESENT_WORD, s, {b2}) # {}
                           THEN <<"Present">> ELSE Slice(s, b2, e2)
                IN  start \o <<SP, EN, SP>> \o end    \* f"{start} – {end}"

_best_effort_end_dt(it, t) ==
  LET win == _extract_date_window(Strip(it.Duration))
      win2 == _extract_date_window(Strip(it.Position))
  IN  IF win # <<>> THEN parse_end_date(win, t)
      ELSE IF win2 # <<>> THEN parse_end_date(win2, t)
      ELSE DATETIME_MIN

\* sort key (end_dt, -idx), reverse=True: tuple a sorts before tuple b
KeyGreater(a, b) == a[1] > b[1] \/ (a[1] = b[1] /\ a[2] > b[2])

fm_sort_experiences(experience_data, now) ==
  LET key == [j \in 1..Len(experience_data) |->
                <<_best_effort_end_dt(experience_data[j], now[j]), 0 - (j - 1)>>]
      rank(j) == 1 + Cardinality({m \in DOMAIN key : KeyGreater(key[m], key[j])})
  IN  [r \in 1..Len(experience_data) |->
         experience_data[CHOOSE j \in 1..Len(experience_data) : rank(j) = r]]

format_experience(experience_data, now) ==
  LET its == [j \in 1..Len(experience_data) |->
                [Position |-> experience_data[j].Position,
                 Company |-> experience_data[j].Company,
                 Duration |-> experience_data[j].Duration,
                 Responsibilities |-> experience_data[j].Responsibilities]]
  IN  fm_sort_experiences(its, now)

\* A dict with string keys: the set of keys present and the value of each key
\* (the value of an absent key is not used).  d.get(k, default):
Get(d, k, default) == IF k \in d.keys THEN d[k] ELSE default

format_data(raw, now) ==
  [keys |-> {"ApplicantName", "Summary", "Experience"},
   ApplicantName |-> Get(raw, "ApplicantName", <<"Name", SP, "not", SP, "provided">>),
   Summary |-> Get(raw, "Summary", <<"Summary", SP, "not", SP, "provided">>),
   Experience |-> format_experience(Get(raw, "Experience", <<>>), now)]

-----------------------------------------------------------------------------
(* text_extractor.py                                                       *)

\* s.replace(old, new)
Replace(s, old, new) ==
  Sub(Cat([k \in 1..Len(old) |-> Tok({old[k]})]), s, new)

\* normalize_text(text) for any Python value
normalize_text(v) ==
  IF v.type # "str" THEN <<>>
  ELSE LET t0 == Replace(v.val, <<CR, NL>>, <<NL>>)
           t1 == Sub(Cat(<<Tok({HY}), Tok({NL})>>), t0, <<>>)          \* r'-\n'
       IN  Sub(Cat(<<Tok({NL}), Tok({NL}), Plus(Tok({NL}))>>), t1, <<NL, NL>>)

-----------------------------------------------------------------------------
(* State                                                                   *)

VARIABLES
  text,         \* main: the normalised text of the CV
  marked_text,  \* main: _mark_sections(text)
  src,          \* which text extract_experience_lines was called with
  lines,        \* extract_experience_lines: the slice found so far
  tier,         \* which tier produced `lines` (0: none yet)
  exp_lines,    \* _structure_experience_from_lines: the input lines
  i,            \* _structure_experience_from_lines: the line index
  items,        \* _structure_experience_from_lines: the roles built so far
  item,         \* _structure_experience_from_lines: the role being filled
  llm_data,     \* main: what extract_cv_data returned
  raw_data,     \* main: the record handed to format_data
  data,         \* main: format_data(raw_data)
  rendered,     \* insert_experience_section: the roles in rendering order
  pc,           \* the position of the program
  durations,    \* sort_experiences: the Duration value of each item
  end_dates,    \* sort_experiences: the _end_date given to each item so far
  clock,        \* the last reading of the system clock
  norm_in,      \* normalize_text: the value it is first called with
  norm_outs,    \* normalize_text: the results of its successive calls
  thr,          \* call_openai_api: where each calling thread stands
  file_lock,    \* data_extractor.file_lock: the thread holding it, 0 if free
  open_files,   \* the threads that have assistant_response.txt open
  log,          \* assistant_response.txt: whose entries it holds, in order
  _end_date,    \* sort_experiences: the '_end_date' key of each item's dict
  sorted_experiences,  \* sort_experiences: the sorted list, as item indices
  placeholder_in,      \* where the template has the {Experience} paragraph
  parent               \* what that paragraph's element has as getparent()

sliceVars == <<text, marked_text, src, lines, tier>>
structVars == <<exp_lines, i, items, item>>
tailVars == <<llm_data, raw_data, data, rendered>>
dateVars == <<durations, end_dates, clock>>
normVars == <<norm_in, norm_outs>>
logVars == <<thr, file_lock, open_files, log>>
keyVars == <<_end_date, sorted_experiences>>
docVars == <<placeholder_in, parent>>
auxVars == <<dateVars, normVars, logVars, keyVars, docVars>>
vars == <<text, marked_text, src, lines, tier, exp_lines, i, items, item,
          llm_data, raw_data, data, rendered, pc, auxVars>>

\* the variables of the functions that main has not called
MaxThreads == 2

Threads == 1..MaxThreads

\* no thread is inside call_openai_api
NoCalls == [t \in Threads |-> [pc |-> "idle", err |-> FALSE, calls |-> 0]]

AuxInit ==
  /\ durations = <<>> /\ end_dates = <<>> /\ clock = 0
  /\ norm_in = PyNone /\ norm_outs = <<>>
  /\ thr = NoCalls /\ file_lock = 0 /\ open_files = {} /\ log = <<>>
  /\ _end_date = <<>> /\ sorted_experiences = <<>>
  /\ placeholder_in = "body" /\ parent = "body"

NoItem == [Position |-> <<>>, Company |-> <<>>, Duration |-> <<>>,
           Responsibilities |-> <<>>]

NoDict == [keys |-> {}, ApplicantName |-> <<>>, Summary |-> <<>>,
           Experience |-> <<>>]

n == Len(exp_lines)

-----------------------------------------------------------------------------
(* main.main, step 1: marked_text = _mark_sections(text)                   *)

MarkSections ==
  /\ pc = "mark"
  /\ marked_text' = _mark_sections(text)
  /\ src' = "marked"
  /\ pc' = "tier1"
  /\ UNCHANGED <<text, lines, tier>>
  /\ UNCHANGED structVars /\ UNCHANGED tailVars /\ UNCHANGED auxVars

-----------------------------------------------------------------------------
(* experience_parser.extract_experience_lines, and main's                  *)
(*   extract_experience_lines(marked_text) or extract_experience_lines(text) *)

full_text == IF src = "marked" THEN marked_text ELSE text

\* lines = _slice_between_markers(full_text); if lines: return lines
Tier1 ==
  /\ pc = "tier1"
  /\ lines' = _slice_between_markers(full_text)
  /\ tier' = 1
  /\ IF lines' # <<>>
     THEN exp_lines' = lines' /\ pc' = "outer"
     ELSE exp_lines' = exp_lines /\ pc' = "tier2"
  /\ UNCHANGED <<text, marked_text, src, i, items, item>>
  /\ UNCHANGED tailVars /\ UNCHANGED auxVars

\* Tier2, but with main using the marked text's result even when it is empty
Tier2_MarkedOnly ==
  /\ pc = "tier2"
  /\ lines' = _slice_by_headings(full_text)
  /\ tier' = 2
  /\ src' = src /\ exp_lines' = lines' /\ pc' = "outer"
  /\ UNCHANGED <<text, marked_text, i, items, item>>
  /\ UNCHANGED tailVars /\ UNCHANGED auxVars

\* lines = _slice_by_headings(full_text); return lines.  An empty result for
\* the marked text makes main call extract_experience_lines(text).
Tier2 ==
  /\ pc = "tier2"
  /\ lines' = _slice_by_headings(full_text)
  /\ tier' = 2
  /\ IF lines' = <<>> /\ src = "marked"
     THEN src' = "text" /\ exp_lines' = exp_lines /\ pc' = "tier1"
     ELSE src' = src /\ exp_lines' = lines' /\ pc' = "outer"
  /\ UNCHANGED <<text, marked_text, i, items, item>>
  /\ UNCHANGED tailVars /\ UNCHANGED auxVars

-----------------------------------------------------------------------------
(* main._structure_experience_from_lines, one action per loop step         *)

\* outer loop: a blank line is skipped
OuterBlank ==
  /\ pc = "outer" /\ i < n
  /\ RStrip(exp_lines[i + 1]) = <<>>
  /\ i' = i + 1
  /\ UNCHANGED <<exp_lines, items, item, pc>>
  /\ UNCHANGED sliceVars /\ UNCHANGED tailVars /\ UNCHANGED auxVars

\* OpenRole, but never taking the next line as the duration
OpenRole_HeaderOnly ==
  /\ pc = "outer" /\ i < n
  /\ LET line == RStrip(exp_lines[i + 1])
         position_text == Strip(line)
     IN  /\ line # <<>>
         /\ is_header(line)
         /\ item' = [Position |-> position_text, Company |-> <<>>,
                     Duration |-> ParenDuration(position_text),
                     Responsibilities |-> <<>>]
         /\ i' = i + 1
  /\ pc' = "inner"
  /\ UNCHANGED <<exp_lines, items>>
  /\ UNCHANGED sliceVars /\ UNCHANGED tailVars /\ UNCHANGED auxVars

\* OpenRole, but always advancing past two lines
OpenRole_SkipsTwo ==
  /\ pc = "outer" /\ i < n
  /\ LET line == RStrip(exp_lines[i + 1])
         position_text == Strip(line)
     IN  /\ line # <<>>
         /\ is_header(line)
         /\ item' = [Position |-> position_text, Company |-> <<>>,
                     Duration |-> ParenDuration(position_text),
                     Responsibilities |-> <<>>]
         /\ i' = i + 2
  /\ pc' = "inner"
  /\ UNCHANGED <<exp_lines, items>>
  /\ UNCHANGED sliceVars /\ UNCHANGED tailVars /\ UNCHANGED auxVars

\* outer loop: a header line starts a new role
OpenRole ==
  /\ pc = "outer" /\ i < n
  /\ LET line == RStrip(exp_lines[i + 1])
         position_text == Strip(line)
         in_header == ParenDuration(position_text)
         used_next_for_duration ==
           /\ in_header = <<>>
           /\ i + 1 < n
           /\ is_duration_line(Strip(exp_lines[i + 2]))
         duration_text == IF used_next_for_duration
                          THEN Strip(exp_lines[i + 2]) ELSE in_header
     IN  /\ line # <<>>
         /\ is_header(line)
         /\ item' = [Position |-> position_text, Company |-> <<>>,
                     Duration |-> duration_text, Responsibilities |-> <<>>]
         /\ i' = IF used_next_for_duration THEN i + 2 ELSE i + 1
  /\ pc' = "inner"
  /\ UNCHANGED <<exp_lines, items>>
  /\ UNCHANGED sliceVars /\ UNCHANGED tailVars /\ UNCHANGED auxVars

\* inner loop: a blank line is skipped
InnerBlank ==
  /\ pc = "inner" /\ i < n
  /\ Strip(exp_lines[i + 1]) = <<>>
  /\ i' = i + 1
  /\ UNCHANGED <<exp_lines, items, item, pc>>
  /\ UNCHANGED sliceVars /\ UNCHANGED tailVars /\ UNCHANGED auxVars

\* InnerStops, but without the check of the section names
InnerStops_NoSectionNames(peek) ==
  \/ is_header(peek)
  \/ is_duration_line(peek)

\* InnerStops, but without the check for the next role's header
InnerStops_NoHeader(peek) ==
  \/ is_duration_line(peek)
  \/ HeadingKey(peek) \in SECTION_NAMES

\* the inner loop's break conditions
InnerStops(peek) ==
  \/ is_header(peek)
  \/ is_duration_line(peek)
  \/ HeadingKey(peek) \in SECTION_NAMES

\* inner loop: a line is kept as a responsibility
InnerAppend ==
  /\ pc = "inner" /\ i < n
  /\ LET peek == Strip(exp_lines[i + 1])
     IN  /\ peek # <<>>
         /\ ~InnerStops(peek)
         /\ item' = [item EXCEPT !.Responsibilities = Append(@, strip_bullet(peek))]
  /\ i' = i + 1
  /\ UNCHANGED <<exp_lines, items, pc>>
  /\ UNCHANGED sliceVars /\ UNCHANGED tailVars /\ UNCHANGED auxVars

\* CloseRole, but putting the role in front: items.insert(0, item)
CloseRole_Prepend ==
  /\ pc = "inner"
  /\ \/ i >= n
     \/ /\ i < n
        /\ Strip(exp_lines[i + 1]) # <<>>
        /\ InnerStops(Strip(exp_lines[i + 1]))
  /\ items' = <<item>> \o items
  /\ item' = NoItem
  /\ pc' = "outer"
  /\ UNCHANGED <<exp_lines, i>>
  /\ UNCHANGED sliceVars /\ UNCHANGED tailVars /\ UNCHANGED auxVars

\* inner loop ends (break, or no lines left): items.append(item); continue
CloseRole ==
  /\ pc = "inner"
  /\ \/ i >= n
     \/ /\ i < n
        /\ Strip(exp_lines[i + 1]) # <<>>
        /\ InnerStops(Strip(exp_lines[i + 1]))
  /\ items' = Append(items, item)
  /\ item' = NoItem
  /\ pc' = "outer"
  /\ UNCHANGED <<exp_lines, i>>
  /\ UNCHANGED sliceVars /\ UNCHANGED tailVars /\ UNCHANGED auxVars

\* SkipDuration, but keeping the unanchored duration as a role of its own
SkipDuration_OpensRole ==
  /\ pc = "outer" /\ i < n
  /\ LET line == RStrip(exp_lines[i + 1])
     IN  /\ line # <<>> /\ ~is_header(line) /\ is_duration_line(line)
         /\ items' = Append(items, [NoItem EXCEPT !.Duration = Strip(line)])
  /\ i' = i + 1
  /\ UNCHANGED <<exp_lines, item, pc>>
  /\ UNCHANGED sliceVars /\ UNCHANGED tailVars /\ UNCHANGED auxVars

\* outer loop: a duration line without a header is skipped
SkipDuration ==
  /\ pc = "outer" /\ i < n
  /\ LET line == RStrip(exp_lines[i + 1])
     IN  line # <<>> /\ ~is_header(line) /\ is_duration_line(line)
  /\ i' = i + 1
  /\ UNCHANGED <<exp_lines, items, item, pc>>
  /\ UNCHANGED sliceVars /\ UNCHANGED tailVars /\ UNCHANGED auxVars

\* outer loop: any other line is skipped
SkipOther ==
  /\ pc = "outer" /\ i < n
  /\ LET line == RStrip(exp_lines[i + 1])
     IN  line # <<>> /\ ~is_header(line) /\ ~is_duration_line(line)
  /\ i' = i + 1
  /\ UNCHANGED <<exp_lines, items, item, pc>>
  /\ UNCHANGED sliceVars /\ UNCHANGED tailVars /\ UNCHANGED auxVars

\* return items
ReturnItems ==
  /\ pc = "outer" /\ i >= n
  /\ pc' = "structured"
  /\ UNCHANGED structVars
  /\ UNCHANGED sliceVars /\ UNCHANGED tailVars /\ UNCHANGED auxVars

StructureStep ==
  \/ OuterBlank \/ OpenRole \/ InnerBlank \/ InnerAppend \/ CloseRole
  \/ SkipDuration \/ SkipOther \/ ReturnItems

-----------------------------------------------------------------------------
(* main.main, steps 3 to 6                                                 *)

\* What the two LLM calls of extract_cv_data can return, merged into one dict
LLMEntry == [Position |-> <<"Eng">>, Company |-> <<"Acme">>,
             Duration |-> <<"2012">>, Responsibilities |-> << <<"Grew">> >>]

LLMRecords ==
  { [keys |-> {}, ApplicantName |-> <<>>, Summary |-> <<>>, Experience |-> <<>>],
    [keys |-> {"ApplicantName", "Experience"}, ApplicantName |-> <<"Acme">>,
     Summary |-> <<>>, Experience |-> <<>>],
    [keys |-> {"ApplicantName", "Summary", "Experience"}, ApplicantName |-> <<"Acme">>,
     Summary |-> <<"Led">>, Experience |-> <<LLMEntry>>],
    [keys |-> {"Summary"}, ApplicantName |-> <<>>, Summary |-> <<"Led">>,
     Experience |-> <<>>] }

\* raw_data = extract_cv_data(marked_text)
ExtractCvData ==
  /\ pc = "structured"
  /\ llm_data' \in LLMRecords
  /\ raw_data' = llm_data'
  /\ pc' = "extracted"
  /\ UNCHANGED <<data, rendered>>
  /\ UNCHANGED sliceVars /\ UNCHANGED structVars /\ UNCHANGED auxVars

\* Override, but keeping the LLM's list when the structurer found no role
Override_UnlessEmpty ==
  /\ pc = "extracted"
  /\ raw_data' = IF items = <<>> THEN raw_data
                 ELSE [raw_data EXCEPT !.keys = @ \cup {"Experience"},
                                       !.Experience = items]
  /\ pc' = "merged"
  /\ UNCHANGED <<llm_data, data, rendered>>
  /\ UNCHANGED sliceVars /\ UNCHANGED structVars /\ UNCHANGED auxVars

\* raw_data["Experience"] = exp_struct
Override ==
  /\ pc = "extracted"
  /\ raw_data' = [raw_data EXCEPT !.keys = @ \cup {"Experience"},
                                  !.Experience = items]
  /\ pc' = "merged"
  /\ UNCHANGED <<llm_data, data, rendered>>
  /\ UNCHANGED sliceVars /\ UNCHANGED structVars /\ UNCHANGED auxVars

MaxTick == 1

\* the readings of the clock during k successive calls: never decreasing
Clock(k) ==
  {c \in [1..k -> 1..(1 + MaxTick)] : \A a, b \in 1..k : a < b => c[a] <= c[b]}

\* data = format_data(raw_data)
FormatData ==
  /\ pc = "merged"
  /\ \E now \in Clock(Len(Get(raw_data, "Experience", <<>>))) :
       data' = format_data(raw_data, now)
  /\ pc' = "formatted"
  /\ UNCHANGED <<llm_data, raw_data, rendered>>
  /\ UNCHANGED sliceVars /\ UNCHANGED structVars /\ UNCHANGED auxVars

\* create_document(data): insert_experience_section(paragraph, data["Experience"])
Render ==
  /\ pc = "formatted"
  /\ IF data.Experience = <<>>
     THEN rendered' = <<>>
     ELSE \E now \in Clock(Len(data.Experience)) :
            rendered' = dg_sort_experiences(data.Experience, now)
  /\ pc' = "rendered"
  /\ UNCHANGED <<llm_data, raw_data, data>>
  /\ UNCHANGED sliceVars /\ UNCHANGED structVars /\ UNCHANGED auxVars

-----------------------------------------------------------------------------
(* document_generator.sort_experiences: the loop that dates each item      *)

\* for item in experience_data: item['_end_date'] = parse_end_date(duration);
\* the clock is read at or after its last reading
ParseEndDate ==
  /\ pc = "dating"
  /\ Len(end_dates) < Len(durations)
  /\ \E t \in 1..(1 + MaxTick) :
       /\ t >= clock
       /\ clock' = t
       /\ end_dates' = Append(end_dates,
                              parse_end_date_value(durations[Len(end_dates) + 1], t))
  /\ UNCHANGED <<durations, pc>> /\ UNCHANGED normVars /\ UNCHANGED logVars
  /\ UNCHANGED keyVars /\ UNCHANGED docVars
  /\ UNCHANGED sliceVars /\ UNCHANGED structVars /\ UNCHANGED tailVars

-----------------------------------------------------------------------------
(* document_generator.insert_experience_section and sort_experiences, one  *)
(* action per step; the dicts of data["Experience"] are changed in place   *)

\* the '_end_date' key of a dict: absent, or present with a value
NoKey == [has |-> FALSE, val |-> DATETIME_MIN]
Key(v) == [has |-> TRUE, val |-> v]

\* the frame of the steps that insert paragraphs and remove the placeholder
DocFrame ==
  /\ UNCHANGED <<llm_data, raw_data, data, placeholder_in>>
  /\ UNCHANGED dateVars /\ UNCHANGED normVars /\ UNCHANGED logVars /\ UNCHANGED keyVars
  /\ UNCHANGED sliceVars /\ UNCHANGED structVars

\* if not experience_data: p_element.getparent().remove(p_element); return
NoExperienceData ==
  /\ pc = "formatted"
  /\ data.Experience = <<>>
  /\ rendered' = <<>>
  /\ parent' = "None"
  /\ pc' = "inserted"
  /\ DocFrame

\* for item in experience_data: item['_end_date'] = parse_end_date(duration)
SetEndDate ==
  /\ pc = "formatted"
  /\ Len(_end_date) < Len(data.Experience)
  /\ \E t \in 1..(1 + MaxTick) :
       /\ t >= clock
       /\ clock' = t
       /\ _end_date' =
            Append(_end_date,
                   Key(parse_end_date_value(
                         PyStr(data.Experience[Len(_end_date) + 1].Duration), t)))
  /\ UNCHANGED <<durations, end_dates, sorted_experiences, pc>>
  /\ UNCHANGED normVars /\ UNCHANGED logVars /\ UNCHANGED docVars
  /\ UNCHANGED sliceVars /\ UNCHANGED structVars /\ UNCHANGED tailVars

\* x.get('_end_date', datetime.min)
SortKey(j) == IF _end_date[j].has THEN _end_date[j].val ELSE DATETIME_MIN

\* sorted_experiences = sorted(experience_data, key=..., reverse=True)
SortByEndDate ==
  /\ pc = "formatted"
  /\ data.Experience # <<>>
  /\ Len(_end_date) = Len(data.Experience)
  /\ sorted_experiences' =
       SortedDesc([j \in 1..Len(data.Experience) |-> j],
                  [j \in 1..Len(data.Experience) |-> SortKey(j)])
  /\ pc' = "popping"
  /\ UNCHANGED _end_date /\ UNCHANGED dateVars /\ UNCHANGED normVars /\ UNCHANGED logVars
  /\ UNCHANGED docVars
  /\ UNCHANGED sliceVars /\ UNCHANGED structVars /\ UNCHANGED tailVars

\* the items of sorted_experiences whose key the second loop has yet to pop
Unpopped == {k \in 1..Len(sorted_experiences) : _end_date[sorted_experiences[k]].has}

\* PopEndDate, but leaving the key in the dict
PopEndDate_Keeps ==
  /\ pc = "popping"
  /\ Unpopped # {}
  /\ _end_date' = [_end_date EXCEPT ![sorted_experiences[Min(Unpopped)]] =
                                      Key(DATETIME_MIN)]
  /\ pc' = IF Cardinality(Unpopped) = 1 THEN "popped" ELSE pc
  /\ UNCHANGED sorted_experiences
  /\ UNCHANGED dateVars /\ UNCHANGED normVars /\ UNCHANGED logVars /\ UNCHANGED docVars
  /\ UNCHANGED sliceVars /\ UNCHANGED structVars /\ UNCHANGED tailVars

\* for item in sorted_experiences: item.pop('_end_date', None)
PopEndDate ==
  /\ pc = "popping"
  /\ Unpopped # {}
  /\ _end_date' = [_end_date EXCEPT ![sorted_experiences[Min(Unpopped)]] = NoKey]
  /\ pc' = IF Cardinality(Unpopped) = 1 THEN "popped" ELSE pc
  /\ UNCHANGED sorted_experiences
  /\ UNCHANGED dateVars /\ UNCHANGED normVars /\ UNCHANGED logVars /\ UNCHANGED docVars
  /\ UNCHANGED sliceVars /\ UNCHANGED structVars /\ UNCHANGED tailVars

\* what sort_experiences returns: the items in the order of the sorted list
SortedItems ==
  [k \in 1..Len(sorted_experiences) |-> data.Experience[sorted_experiences[k]]]

\* return sorted_experiences; insert_experience_section inserts the roles in
\* that order after the placeholder paragraph, skipping a role that has
\* neither Position nor Company, and removes the placeholder:
\* p_element.getparent().remove(p_element)
ReturnSorted ==
  /\ pc = "popped"
  /\ LET shown(e) == e.Position # <<>> \/ e.Company # <<>>
     IN  rendered' = SelectSeq(SortedItems, shown)
  /\ parent' = "None"
  /\ pc' = "inserted"
  /\ DocFrame

\* create_document, the loop over doc.paragraphs: nothing more is done with
\* the placeholder paragraph
BodyNext ==
  /\ pc = "inserted"
  /\ placeholder_in = "body"
  /\ pc' = "rendered"
  /\ UNCHANGED <<rendered, parent>>
  /\ DocFrame

\* replace_placeholders_in_cell, after insert_experience_section returned:
\* p_element.getparent().remove(p_element); on an element that has been
\* removed getparent() is None, and None.remove raises AttributeError
CellRemove ==
  /\ pc = "inserted"
  /\ placeholder_in = "cell"
  /\ IF parent = "None"
     THEN pc' = "raised" /\ parent' = parent
     ELSE pc' = "rendered" /\ parent' = "None"
  /\ UNCHANGED rendered
  /\ DocFrame

-----------------------------------------------------------------------------
(* text_extractor.normalize_text, applied to its own result                *)

MaxPasses == 2

\* normalize_text on the first value, then on the text it returned
NormalizeText ==
  /\ pc = "normalizing"
  /\ Len(norm_outs) < MaxPasses
  /\ norm_outs' = Append(norm_outs,
                         normalize_text(IF norm_outs = <<>> THEN norm_in
                                        ELSE PyStr(norm_outs[Len(norm_outs)])))
  /\ UNCHANGED <<norm_in, pc>> /\ UNCHANGED dateVars /\ UNCHANGED logVars
  /\ UNCHANGED keyVars /\ UNCHANGED docVars
  /\ UNCHANGED sliceVars /\ UNCHANGED structVars /\ UNCHANGED tailVars

-----------------------------------------------------------------------------
(* data_extractor.call_openai_api, called by several threads               *)

MaxCalls == 2

\* what the steps of the threads leave alone
LogFrame ==
  /\ UNCHANGED pc /\ UNCHANGED dateVars /\ UNCHANGED normVars /\ UNCHANGED keyVars
  /\ UNCHANGED docVars
  /\ UNCHANGED sliceVars /\ UNCHANGED structVars /\ UNCHANGED tailVars

\* response = openai.ChatCompletion.create(...): a response, or an OpenAI
\* error that is logged and raised again
ApiCall(t) ==
  /\ thr[t].pc = "call"
  /\ \E ok \in BOOLEAN :
       thr' = [thr EXCEPT ![t].pc = IF ok THEN "responded" ELSE "raised"]
  /\ UNCHANGED <<file_lock, open_files, log>>
  /\ LogFrame

\* with file_lock: (enter) blocks until the lock is free
Acquire(t) ==
  /\ thr[t].pc = "responded"
  /\ file_lock = 0
  /\ file_lock' = t
  /\ thr' = [thr EXCEPT ![t].pc = "locked"]
  /\ UNCHANGED <<open_files, log>>
  /\ LogFrame

\* with open("assistant_response.txt", "a") as f: (enter) opens the file, or
\* raises OSError
Open(t) ==
  /\ thr[t].pc = "locked"
  /\ \E ok \in BOOLEAN :
       /\ thr' = [thr EXCEPT ![t].pc = IF ok THEN "opened" ELSE "unlocking",
                             ![t].err = ~ok]
       /\ open_files' = IF ok THEN open_files \cup {t} ELSE open_files
  /\ UNCHANGED <<file_lock, log>>
  /\ LogFrame

\* f.write(log_entry): appends the entry, or raises OSError
Write(t) ==
  /\ thr[t].pc = "opened"
  /\ \E ok \in BOOLEAN :
       /\ thr' = [thr EXCEPT ![t].pc = "closing", ![t].err = ~ok]
       /\ log' = IF ok THEN Append(log, t) ELSE log
  /\ UNCHANGED <<file_lock, open_files>>
  /\ LogFrame

\* with open(...): (exit) closes the file, exception or not
Close(t) ==
  /\ thr[t].pc = "closing"
  /\ open_files' = open_files \ {t}
  /\ thr' = [thr EXCEPT ![t].pc = "unlocking"]
  /\ UNCHANGED <<file_lock, log>>
  /\ LogFrame

\* Release, but by a release() call after the write, which an exception skips
Release_UnlessFailed(t) ==
  /\ thr[t].pc = "unlocking"
  /\ file_lock' = IF thr[t].err THEN file_lock ELSE 0
  /\ thr' = [thr EXCEPT ![t].pc = IF thr[t].err THEN "raised" ELSE "returned"]
  /\ UNCHANGED <<open_files, log>>
  /\ LogFrame

\* with file_lock: (exit) releases the lock, exception or not; then the
\* function returns the response, or the exception leaves it
Release(t) ==
  /\ thr[t].pc = "unlocking"
  /\ file_lock' = 0
  /\ thr' = [thr EXCEPT ![t].pc = IF thr[t].err THEN "raised" ELSE "returned"]
  /\ UNCHANGED <<open_files, log>>
  /\ LogFrame

\* extract_cv_data: the thread's next call (extract_experience_education
\* after extract_basic_info)
NextCall(t) ==
  /\ thr[t].pc = "returned"
  /\ thr[t].calls < MaxCalls
  /\ thr' = [thr EXCEPT ![t].pc = "call", ![t].calls = @ + 1]
  /\ UNCHANGED <<file_lock, open_files, log>>
  /\ LogFrame

ThreadStep(t) ==
  \/ ApiCall(t) \/ Acquire(t) \/ Open(t) \/ Write(t) \/ Close(t) \/ Release(t)
  \/ NextCall(t)

-----------------------------------------------------------------------------
(* Specifications                                                          *)

SeqsUpTo(S, k) == UNION {[1..m -> S] : m \in 0..k}

\* -- main.main on every text within the bounds ------------------------------

MaxTextLines == 4

TextLines ==
  { <<"Experience">>,
    <<"Acme", SP, HY, SP, "Eng">>,
    <<"2004", HY, "2012">>,
    <<HY, SP, "Led">>,
    <<"Qualifications">>,
    <<"Projects">> }

Texts == {Join(ls, <<NL>>) : ls \in SeqsUpTo(TextLines, MaxTextLines)}

Init ==
  /\ text \in Texts
  /\ marked_text = <<>> /\ src = "marked" /\ lines = <<>> /\ tier = 0
  /\ exp_lines = <<>> /\ i = 0 /\ items = <<>> /\ item = NoItem
  /\ llm_data = NoDict /\ raw_data = NoDict /\ data = NoDict /\ rendered = <<>>
  /\ pc = "mark"
  /\ AuxInit

\* extract_experience_lines returns no blank line, so the structurer's two
\* blank-line branches (OuterBlank, InnerBlank) cannot be taken from main.
Next ==
  \/ MarkSections \/ Tier1 \/ Tier2
  \/ OpenRole \/ InnerAppend \/ CloseRole
  \/ SkipDuration \/ SkipOther \/ ReturnItems
  \/ ExtractCvData \/ Override \/ FormatData \/ Render

Spec == Init /\ [][Next]_vars

\* -- extract_experience_lines on every text within the bounds ---------------

MaxSliceLines == 4

SliceLines ==
  { <<EQ, SP, "Experience", SP, EQ>>,
    <<EQ, SP, "Skills", SP, EQ>>,
    <<"Experience">>,
    <<SP, "Acme", SP, HY, SP, "Eng">>,
    <<HY, SP, "Led">>,
    <<"Technical", SP, "Skills">>,
    <<"Core", SP, "Skills">>,
    <<LB, "Education", RB>>,
    <<"2004", HY, "2012">>,
    <<>> }

SliceTexts == {Join(ls, <<NL>>) : ls \in SeqsUpTo(SliceLines, MaxSliceLines)}

InitSlice ==
  /\ text \in SliceTexts
  /\ marked_text = <<>> /\ src = "text" /\ lines = <<>> /\ tier = 0
  /\ exp_lines = <<>> /\ i = 0 /\ items = <<>> /\ item = NoItem
  /\ llm_data = NoDict /\ raw_data = NoDict /\ data = NoDict /\ rendered = <<>>
  /\ pc = "tier1"
  /\ AuxInit

NextSlice ==
  \/ Tier1 \/ Tier2
  \/ OpenRole \/ InnerAppend \/ CloseRole
  \/ SkipDuration \/ SkipOther \/ ReturnItems

SpecSlice == InitSlice /\ [][NextSlice]_vars

\* -- _structure_experience_from_lines on every line list within the bounds --

MaxLines == 4

StructLines ==
  { <<"Acme", SP, EN, SP, "Eng">>,
    <<"Earlier", SP, "Career", SP, LP, "1991", SP, EN, SP, "2004", RP>>,
    <<"Jan", SP, "2020", SP, EN, SP, "Present">>,
    <<"2004", HY, "2012">>,
    <<HY, SP, "Led">>,
    <<SP, "Grew", SP>>,
    <<"Technical", SP, "Skills">>,
    <<>> }

InitStruct ==
  /\ text = <<>> /\ marked_text = <<>> /\ src = "text" /\ lines = <<>> /\ tier = 0
  /\ exp_lines \in SeqsUpTo(StructLines, MaxLines)
  /\ i = 0 /\ items = <<>> /\ item = NoItem
  /\ llm_data = NoDict /\ raw_data = NoDict /\ data = NoDict /\ rendered = <<>>
  /\ pc = "outer"
  /\ AuxInit

NextStruct ==
  \/ OuterBlank \/ OpenRole \/ InnerBlank \/ InnerAppend \/ CloseRole
  \/ SkipDuration \/ SkipOther \/ ReturnItems

SpecStruct == InitStruct /\ [][NextStruct]_vars

\* -- the same pass run to its end ----------------------------------------------

MaxPassLines == 3

PassLines ==
  { <<"Acme", SP, EN, SP, "Eng">>,
    <<"2004", HY, "2012">>,
    <<HY, SP, "Led">>,
    <<"Technical", SP, "Skills">>,
    <<>> }

InitPass ==
  /\ text = <<>> /\ marked_text = <<>> /\ src = "text" /\ lines = <<>> /\ tier = 0
  /\ exp_lines \in SeqsUpTo(PassLines, MaxPassLines)
  /\ i = 0 /\ items = <<>> /\ item = NoItem
  /\ llm_data = NoDict /\ raw_data = NoDict /\ data = NoDict /\ rendered = <<>>
  /\ pc = "outer"
  /\ AuxInit

\* The pass is one sequential call: while it has a step to take, it takes it.
\* This is weak fairness of NextStruct with its enabling condition written
\* out: the branches of the two loops are exhaustive, so a step is enabled
\* exactly until the pass has returned.
FairSpecPass ==
  /\ InitPass /\ [][NextStruct]_vars
  /\ ([]<>(pc = "structured") \/ []<><<NextStruct>>_vars)

\* -- the structurer on line lists with section headings among the lines -----

StopLines ==
  { <<"Acme", SP, HY, SP, "Eng">>,
    <<HY, SP, "Led">>,
    <<LB, "Skills", RB>>,
    <<"technical", SP, "skills">>,
    <<HY, SP, "Skills">>,
    <<"Projects">>,
    <<"2004", HY, "2012">>,
    <<>> }

InitStop ==
  /\ text = <<>> /\ marked_text = <<>> /\ src = "text" /\ lines = <<>> /\ tier = 0
  /\ exp_lines \in SeqsUpTo(StopLines, MaxLines)
  /\ i = 0 /\ items = <<>> /\ item = NoItem
  /\ llm_data = NoDict /\ raw_data = NoDict /\ data = NoDict /\ rendered = <<>>
  /\ pc = "outer"
  /\ AuxInit

SpecStop == InitStop /\ [][NextStruct]_vars

\* -- format_data and the renderer on every entry list within the bounds -----

MaxEntries == 3

SortPositions == { <<"Acme">>, <<"Eng">> }

SortDurations ==
  { <<"2012", SP, HY, SP, "2014">>,
    <<"Jan", SP, "2015", SP, HY, SP, "Present">>,
    <<"2004", SP, EN, SP, "2012">>,
    <<"N", SL, "A">>,
    <<>> }

SortEntries ==
  { [Position |-> p, Company |-> <<>>, Duration |-> d, Responsibilities |-> <<>>] :
      p \in SortPositions, d \in SortDurations }

InitSort ==
  /\ text = <<>> /\ marked_text = <<>> /\ src = "text" /\ lines = <<>> /\ tier = 0
  /\ exp_lines = <<>> /\ i = 0 /\ items = <<>> /\ item = NoItem
  /\ llm_data = NoDict
  /\ \E es \in SeqsUpTo(SortEntries, MaxEntries) :
       raw_data = [keys |-> {"Experience"}, ApplicantName |-> <<>>,
                   Summary |-> <<>>, Experience |-> es]
  /\ data = NoDict /\ rendered = <<>>
  /\ pc = "merged"
  /\ AuxInit

NextSort == FormatData \/ Render

SpecSort == InitSort /\ [][NextSort]_vars

\* -- the same, with the renderer's sort taken step by step -------------------

InitInPlace ==
  /\ text = <<>> /\ marked_text = <<>> /\ src = "text" /\ lines = <<>> /\ tier = 0
  /\ exp_lines = <<>> /\ i = 0 /\ items = <<>> /\ item = NoItem
  /\ llm_data = NoDict
  /\ \E es \in SeqsUpTo(SortEntries, MaxEntries) :
       raw_data = [keys |-> {"Experience"}, ApplicantName |-> <<>>,
                   Summary |-> <<>>, Experience |-> es]
  /\ data = NoDict /\ rendered = <<>>
  /\ durations = <<>> /\ end_dates = <<>> /\ clock = 0
  /\ norm_in = PyNone /\ norm_outs = <<>>
  /\ thr = NoCalls /\ file_lock = 0 /\ open_files = {} /\ log = <<>>
  /\ _end_date = <<>> /\ sorted_experiences = <<>>
  /\ placeholder_in \in {"body", "cell"} /\ parent = placeholder_in
  /\ pc = "merged"

NextInPlace ==
  \/ FormatData \/ NoExperienceData
  \/ SetEndDate \/ SortByEndDate \/ PopEndDate \/ ReturnSorted
  \/ BodyNext \/ CellRemove

SpecInPlace == InitInPlace /\ [][NextInPlace]_vars

\* -- the dating loop on every list of Duration values within the bounds -----

MaxDurations == 2

DateStarts == { <<"2012">>, <<"Jan", SP, "2015">> }
DateSeps == { <<SP, HY, SP>>, <<SP, EN, SP>> }
DateEnds == { <<"2014">>, <<"Present">>, <<"now">>, <<"Sep", SP, "2014">>,
              <<"31", SL, "2012">> }

DateValues ==
  { PyStr(a \o b \o c) : a \in DateStarts, b \in DateSeps, c \in DateEnds }
  \cup { PyStr(<<>>), PyStr(<<"2012">>), PyStr(<<"N", SL, "A">>),
         PyStr(<<"2004", SP, EN, SP, "2012", SP, HY, SP, "2014">>),
         PyStr(<<"2004", HY, "2012", HY, "2014">>),
         PyNone, PyInt(0), PyInt(31) }

InitDate ==
  /\ text = <<>> /\ marked_text = <<>> /\ src = "text" /\ lines = <<>> /\ tier = 0
  /\ exp_lines = <<>> /\ i = 0 /\ items = <<>> /\ item = NoItem
  /\ llm_data = NoDict /\ raw_data = NoDict /\ data = NoDict /\ rendered = <<>>
  /\ durations \in SeqsUpTo(DateValues, MaxDurations)
  /\ end_dates = <<>> /\ clock = 0
  /\ norm_in = PyNone /\ norm_outs = <<>>
  /\ thr = NoCalls /\ file_lock = 0 /\ open_files = {} /\ log = <<>>
  /\ _end_date = <<>> /\ sorted_experiences = <<>>
  /\ placeholder_in = "body" /\ parent = "body"
  /\ pc = "dating"

NextDate == ParseEndDate

SpecDate == InitDate /\ [][NextDate]_vars

\* -- normalize_text on every short text of words, hyphens and line ends -----

MaxNormLen == 4

NormChars == {"Led", HY, NL, CR}

NormValues == {PyStr(s) : s \in SeqsUpTo(NormChars, MaxNormLen)} \cup {PyNone, PyInt(31)}

InitNorm ==
  /\ text = <<>> /\ marked_text = <<>> /\ src = "text" /\ lines = <<>> /\ tier = 0
  /\ exp_lines = <<>> /\ i = 0 /\ items = <<>> /\ item = NoItem
  /\ llm_data = NoDict /\ raw_data = NoDict /\ data = NoDict /\ rendered = <<>>
  /\ durations = <<>> /\ end_dates = <<>> /\ clock = 0
  /\ norm_in \in NormValues /\ norm_outs = <<>>
  /\ thr = NoCalls /\ file_lock = 0 /\ open_files = {} /\ log = <<>>
  /\ _end_date = <<>> /\ sorted_experiences = <<>>
  /\ placeholder_in = "body" /\ parent = "body"
  /\ pc = "normalizing"

NextNorm == NormalizeText

SpecNorm == InitNorm /\ [][NextNorm]_vars

\* -- _mark_sections on every text of a few lines ---------------------------

MaxMarkLines == 3

MarkLines ==
  { <<"Experience">>, <<"Work", SP, "Experience">>, <<"professional">>,
    <<"Skills">>, <<SP, "Summary", SP>>, <<"qualifications">>,
    <<"Acme", SP, HY, SP, "Eng">>, <<"Core", SP, "Skills", SP, "Led">>, <<>>,
    <<"additional", SP, "Experience", SP, AMP, SP, "Qualifications">> }

MarkTexts == {Join(ls, <<NL>>) : ls \in SeqsUpTo(MarkLines, MaxMarkLines)}

InitMark ==
  /\ text \in MarkTexts
  /\ marked_text = <<>> /\ src = "marked" /\ lines = <<>> /\ tier = 0
  /\ exp_lines = <<>> /\ i = 0 /\ items = <<>> /\ item = NoItem
  /\ llm_data = NoDict /\ raw_data = NoDict /\ data = NoDict /\ rendered = <<>>
  /\ pc = "mark"
  /\ AuxInit

NextMark == MarkSections

SpecMark == InitMark /\ [][NextMark]_vars

\* -- _mark_sections and then extract_experience_lines, on texts that may have
\* -- a "===" of their own -----------------------------------------------------

MaxMarkedLines == 4

MarkedLines ==
  { <<"Experience">>, <<"Skills">>, <<"Led">>, <<"Acme", SP, HY, SP, "Eng">>,
    <<"Projects">>, <<EQ, SP, "A">> }

MarkedTexts == {Join(ls, <<NL>>) : ls \in SeqsUpTo(MarkedLines, MaxMarkedLines)}

InitMarked ==
  /\ text \in MarkedTexts
  /\ marked_text = <<>> /\ src = "marked" /\ lines = <<>> /\ tier = 0
  /\ exp_lines = <<>> /\ i = 0 /\ items = <<>> /\ item = NoItem
  /\ llm_data = NoDict /\ raw_data = NoDict /\ data = NoDict /\ rendered = <<>>
  /\ pc = "mark"
  /\ AuxInit

NextMarked == MarkSections \/ Tier1 \/ Tier2

SpecMarked == InitMarked /\ [][NextMarked]_vars

\* -- several threads in call_openai_api -------------------------------------

InitLog ==
  /\ text = <<>> /\ marked_text = <<>> /\ src = "text" /\ lines = <<>> /\ tier = 0
  /\ exp_lines = <<>> /\ i = 0 /\ items = <<>> /\ item = NoItem
  /\ llm_data = NoDict /\ raw_data = NoDict /\ data = NoDict /\ rendered = <<>>
  /\ durations = <<>> /\ end_dates = <<>> /\ clock = 0
  /\ norm_in = PyNone /\ norm_outs = <<>>
  /\ thr = [t \in Threads |-> [pc |-> "call", err |-> FALSE, calls |-> 1]]
  /\ file_lock = 0 /\ open_files = {} /\ log = <<>>
  /\ _end_date = <<>> /\ sorted_experiences = <<>>
  /\ placeholder_in = "body" /\ parent = "body"
  /\ pc = "extracting"

NextLog == \E t \in Threads : ThreadStep(t)

\* the scheduler lets every thread that can take a step take one
SpecLog ==
  /\ InitLog /\ [][NextLog]_vars
  /\ \A t \in Threads : WF_vars(ThreadStep(t))

-----------------------------------------------------------------------------
(* Properties                                                              *)

Range(f) == {f[k] : k \in DOMAIN f}

\* A line with its surrounding whitespace and its leading bullet marker (a
\* bullet glyph, "1." / "1)" or "a)", followed by whitespace) removed.
MarkerLen(t) ==
  IF Len(t) >= 1 /\ t[1] \in GLYPHS THEN 1
  ELSE IF Len(t) >= 2 /\ t[1] \in DIGITS /\ t[2] \in {DOT, RP} THEN 2
  ELSE IF Len(t) >= 2 /\ t[1] \in LETTER1 /\ t[2] = RP THEN 2
  ELSE 0

WithoutBullet(l) ==
  LET t == Strip(l)
      m == MarkerLen(t)
  IN  IF m > 0 /\ Len(t) > m /\ t[m + 1] \in WS
      THEN Strip(SubSeq(t, m + 1, Len(t))) ELSE t

\* The spans <<p, q>> of the parentheses of l that enclose a date range.
DateRange ==
  Cat(<<Bol, Star(ws), DATE_WORD, Star(ws), RANGE_SEP, Star(ws),
        Alt(<<PRESENT_WORD, DATE_WORD>>), Star(ws), Eol>>)

ParenSpans(l) ==
  {sp \in (1..Len(l)) \X (1..Len(l)) :
     /\ sp[1] < sp[2] /\ l[sp[1]] = LP /\ l[sp[2]] = RP
     /\ Matches(DateRange, SubSeq(l, sp[1] + 1, sp[2] - 1))}

\* The text between the first such pair of parentheses, trimmed.
EmbeddedRange(l) ==
  LET sp == CHOOSE x \in ParenSpans(l) : \A y \in ParenSpans(l) : x[1] <= y[1]
  IN  Strip(SubSeq(l, sp[1] + 1, sp[2] - 1))

\* l without its first parenthesized date range.
WithoutRange(l) ==
  LET sp == CHOOSE x \in ParenSpans(l) : \A y \in ParenSpans(l) : x[1] <= y[1]
  IN  Strip(SubSeq(l, 1, sp[1] - 1) \o SubSeq(l, sp[2] + 1, Len(l)))

\* C1: after the override in main(), the record handed to format_data has
\* "Experience" equal to the structurer's result and every other key exactly
\* as the LLM returned it, and the roles that are formatted and rendered are
\* the structurer's roles, never the LLM's.
C1_OverrideWins ==
  pc \in {"merged", "formatted", "rendered"} =>
    /\ raw_data.keys = llm_data.keys \cup {"Experience"}
    /\ raw_data.Experience = items
    /\ \A k \in llm_data.keys \ {"Experience"} : raw_data[k] = llm_data[k]
    /\ pc \in {"formatted", "rendered"} => Range(data.Experience) = Range(items)
    /\ pc = "rendered" => Range(rendered) = Range(items)

\* the LLM returned roles, the structurer found none, and the empty list won
C1_Witness ==
  /\ pc = "rendered"
  /\ "Experience" \in llm_data.keys /\ llm_data.Experience # <<>>
  /\ "Summary" \in llm_data.keys
  /\ items = <<>> /\ rendered = <<>>

\* The lines after the first two are non-blank and are neither header,
\* duration line nor section heading.
PlainFrom3(ls) ==
  \A k \in 3..Len(ls) :
     /\ Strip(ls[k]) # <<>>
     /\ ~is_header(ls[k])
     /\ ~is_duration_line(Strip(ls[k]))
     /\ HeadingKey(ls[k]) \notin SECTION_NAMES

HeaderDurationPlain(ls) ==
  /\ Len(ls) >= 2
  /\ Strip(ls[1]) # <<>> /\ is_header(ls[1])
  /\ is_duration_line(Strip(ls[2]))
  /\ PlainFrom3(ls)

OneRole(ls) ==
  << [Position |-> Strip(ls[1]), Company |-> <<>>, Duration |-> Strip(ls[2]),
      Responsibilities |-> [k \in 1..(Len(ls) - 2) |-> WithoutBullet(ls[k + 2])]] >>

RECURSIVE Flatten(_)
Flatten(its) ==
  IF its = <<>> THEN <<>>
  ELSE << [kind |-> "P", txt |-> Head(its).Position] >>
         \o [k \in 1..Len(Head(its).Responsibilities) |->
               [kind |-> "R", txt |-> Head(its).Responsibilities[k]]]
         \o Flatten(Tail(its))

FromLine(f, l) ==
  IF f.kind = "P" THEN Strip(l) # <<>> /\ f.txt = Strip(l)
  ELSE Strip(l) # <<>> /\ f.txt = WithoutBullet(l)

\* flat[1..] can be read off ls[from..], left to right, each line used once
RECURSIVE Embeds(_, _, _)
Embeds(flat, ls, from) ==
  IF flat = <<>> THEN TRUE
  ELSE LET js == {j \in from..Len(ls) : FromLine(Head(flat), ls[j])}
       IN  js # {} /\ Embeds(Tail(flat), ls, Min(js) + 1)

DurationCopied(it, ls) ==
  \/ it.Duration = <<>>
  \/ \E j \in 1..Len(ls) : it.Duration = Strip(ls[j])
  \/ \E p, q \in 1..Len(it.Position) :
       /\ p < q /\ it.Position[p] = LP /\ it.Position[q] = RP
       /\ it.Duration = Strip(SubSeq(it.Position, p + 1, q - 1))

\* C3: the roles' Positions and Responsibilities, read in order, are a
\* subsequence of the input lines (each line used at most once), a Position
\* being a whole trimmed line and a Responsibility a whole trimmed line less
\* its bullet marker; a Duration is empty, a whole trimmed input line, or the
\* content of the parentheses of its role's header.
C3_LinesPreserved ==
  pc = "structured" =>
    /\ Embeds(Flatten(items), exp_lines, 1)
    /\ \A k \in 1..Len(items) : DurationCopied(items[k], exp_lines)

\* two roles, the first with a duration line and a bullet, the second with
\* its duration in the header
C3_Witness ==
  /\ pc = "structured" /\ Len(items) = 2
  /\ items[1].Duration # <<>> /\ items[1].Responsibilities = << <<"Led">> >>
  /\ ParenSpans(items[2].Position) # {} /\ items[2].Duration # <<>>

\* C4 (as claimed): the role opened for a header with a parenthesized date
\* range has that range as Duration and the header without the parenthesized
\* range as Position.
C4_Original ==
  [][(pc = "outer" /\ pc' = "inner" /\ ParenSpans(Strip(exp_lines[i + 1])) # {})
       => /\ item'.Duration = EmbeddedRange(Strip(exp_lines[i + 1]))
          /\ item'.Position = WithoutRange(Strip(exp_lines[i + 1]))]_vars

\* C4 (amended): the role opened for a header with a parenthesized date range
\* has that range as Duration and the whole trimmed header line, the
\* parenthesized range included, as Position.
C4_ParenDuration ==
  [][(pc = "outer" /\ pc' = "inner" /\ ParenSpans(Strip(exp_lines[i + 1])) # {})
       => /\ item'.Duration = EmbeddedRange(Strip(exp_lines[i + 1]))
          /\ item'.Position = Strip(exp_lines[i + 1])]_vars

\* a role has just been opened for a header with a parenthesized date range
C4_Witness ==
  /\ pc = "inner" /\ item.Responsibilities = <<>>
  /\ ParenSpans(item.Position) # {}
  /\ item.Duration = <<"1991", SP, EN, SP, "2004">>

\* the first line that is a header and not a date range, or 0
FirstRoleHeader(ls) ==
  LET hs == {k \in 1..Len(ls) :
               /\ Strip(ls[k]) # <<>> /\ is_header(ls[k])
               /\ ~is_duration_line(Strip(ls[k]))}
  IN  IF hs = {} THEN 0 ELSE Min(hs)

\* C5 (as claimed): the lines before the first header line, bare duration
\* lines among them, are dropped: they open no role, so the first role, if
\* there is one, is the role of the first header line.
C5_Original ==
  pc = "structured" =>
    IF FirstRoleHeader(exp_lines) = 0 THEN items = <<>>
    ELSE items # <<>>
           /\ items[1].Position = Strip(exp_lines[FirstRoleHeader(exp_lines)])

\* a is a subsequence of b
RECURSIVE IsSubseq(_, _)
IsSubseq(a, b) ==
  IF a = <<>> THEN TRUE
  ELSE IF b = <<>> THEN FALSE
  ELSE IF Head(a) = Head(b) THEN IsSubseq(Tail(a), Tail(b))
  ELSE IsSubseq(a, Tail(b))

\* the non-empty lines of t, trimmed
TrimmedLines(t) ==
  LET ls == splitlines(t)
      keep(l) == l # <<>>
  IN  SelectSeq([k \in 1..Len(ls) |-> Strip(ls[k])], keep)

\* the offsets of the canonical section markers of t
MarkerOffsets(t) ==
  {p \in 0..(Len(t) - 5) :
     \E k \in 1..Len(SECTIONS) : SubSeq(t, p + 1, p + 5) = <<EQ, SP, SECTIONS[k], SP, EQ>>}

ExperienceMarkerOffsets(t) ==
  {p \in 0..(Len(t) - 5) : SubSeq(t, p + 1, p + 5) = <<EQ, SP, "Experience", SP, EQ>>}

\* C6 (as claimed): when the marked text has the Experience marker and a later
\* section marker, the Experience lines main() uses are all lines from before
\* that second marker.
C6_Original ==
  (pc \notin {"mark", "tier1", "tier2"} /\ ExperienceMarkerOffsets(marked_text) # {}) =>
    LET s == Min(ExperienceMarkerOffsets(marked_text))
        later == {p \in MarkerOffsets(marked_text) : p > s}
    IN  later # {} =>
          IsSubseq(exp_lines, TrimmedLines(SubSeq(marked_text, 1, Min(later))))

\* a whole line that is a heading of Summary, Skills, Education or
\* Certifications by the synonym table of _mark_sections
DisallowedHeading(l) ==
  \E sec \in {"Summary", "Skills", "Education", "Certifications"} :
     Matches(Cat(<<Bol, Alt(synonyms(sec)), Eol>>), l)

\* C7 (as claimed): the Tier-1 slice is cut before the first line that is a
\* Skills, Education, Certifications or Summary heading or a synonym of one,
\* so it contains no such line.
C7_Original ==
  tier = 1 => \A k \in 1..Len(lines) : ~DisallowedHeading(lines[k])

NoExperience(t) ==
  \/ t = <<>>
  \/ /\ ExperienceMarkerOffsets(t) = {}
     /\ \A k \in 1..Len(splitlines(t)) :
          HeadingKey(splitlines(t)[k]) \notin EXPERIENCE_HEADINGS

\* C9: for a text that is empty or has neither an Experience marker nor an
\* Experience heading line, extract_experience_lines returns no line and the
\* structurer then returns no role.
C9_AbsentIsEmpty ==
  NoExperience(text) =>
    /\ pc \notin {"tier1", "tier2"} => exp_lines = <<>>
    /\ pc # "inner"
    /\ items = <<>>

\* a text with a role header and bullets but no Experience heading
C9_Witness ==
  /\ pc = "structured" /\ NoExperience(text)
  /\ Find(text, <<"Acme", SP, HY, SP, "Eng", NL, HY, SP, "Led">>) # -1
  /\ tier = 2 /\ items = <<>>

\* The end date a duration denotes: the text after its last dash; Present and
\* the like denote the time of the run, a date in a recognised format denotes
\* that date, anything else the minimum date.
EndDateOf(d) ==
  LET dashes == {k \in 1..Len(d) : d[k] \in DASH}
      e == IF dashes = {} THEN Strip(d) ELSE Strip(SubSeq(d, Max(dashes) + 1, Len(d)))
  IN  IF Len(e) = 1 /\ Lower(e[1]) \in present_terms THEN Now(0)
      ELSE IF identify_date_format(e) = "" THEN DATETIME_MIN
      ELSE IF strptime(e, identify_date_format(e)) = -1 THEN DATETIME_MIN
      ELSE strptime(e, identify_date_format(e))

NewestFirst(es) ==
  \A a, b \in 1..Len(es) :
     a < b => EndDateOf(es[a].Duration) >= EndDateOf(es[b].Duration)

\* C10 (as claimed): format_experience and the renderer's sort_experiences
\* return the roles newest first: a role with a later end date comes before
\* one with an earlier end date, and roles without a parseable end date come
\* last.
C10_Original ==
  /\ pc \in {"formatted", "rendered"} => NewestFirst(data.Experience)
  /\ pc = "rendered" => NewestFirst(rendered)

\* the entries of es whose duration denotes the end date d, in their order
WithEndDate(es, d) ==
  LET same(e) == EndDateOf(e.Duration) = d
  IN  SelectSeq(es, same)

Stable(inp, out) ==
  \A k \in 1..Len(inp) :
     WithEndDate(out, EndDateOf(inp[k].Duration)) =
       WithEndDate(inp, EndDateOf(inp[k].Duration))

\* C11 (as claimed): both sort_experiences implementations are stable: entries
\* with equal end dates (the same date, both unparseable or empty, or both
\* open-ended) keep the relative order they had in the input.
C11_Original ==
  /\ pc \in {"formatted", "rendered"} => Stable(raw_data.Experience, data.Experience)
  /\ pc = "rendered" => Stable(data.Experience, rendered)

\* What the resolver's rules say of a Duration value: its parts at the dash
\* separators, its end-date candidate, and what the candidate denotes.
DashParts(v) == SplitFrom(SPLIT_RE, Strip(v.val), 0)

Candidate(v) == Strip(DashParts(v)[Len(DashParts(v))])

IsOpenEnded(v) ==
  /\ v.type = "str" /\ v.val # <<>> /\ Len(DashParts(v)) <= 2
  /\ Len(Candidate(v)) = 1 /\ Lower(Candidate(v)[1]) \in present_terms

IsConcrete(v) ==
  /\ v.type = "str" /\ v.val # <<>> /\ Len(DashParts(v)) <= 2
  /\ identify_date_format(Candidate(v)) # ""
  /\ strptime(Candidate(v), identify_date_format(Candidate(v))) # -1

DateDenoted(v) == strptime(Candidate(v), identify_date_format(Candidate(v)))

\* C12 (as claimed): a duration "<start> <sep> <end>" with any of the dashes
\* as <sep> and <end> in a recognised format resolves to the date <end>
\* denotes, not to the minimum date.
C12_Original ==
  \A k \in 1..Len(end_dates) :
     (IsConcrete(durations[k]) /\ Len(DashParts(durations[k])) = 2) =>
        /\ end_dates[k] = DateDenoted(durations[k])
        /\ end_dates[k] # DATETIME_MIN

\* C13 (as claimed): parse_end_date never raises, it returns a date for every
\* input, and the date is the minimum date whenever the input is empty or its
\* end date cannot be parsed (more than two parts, or a candidate that is
\* neither open-ended nor a valid date in a recognised format).
C13_Original ==
  \A k \in 1..Len(end_dates) :
     /\ end_dates[k] >= DATETIME_MIN
     /\ (~IsOpenEnded(durations[k]) /\ ~IsConcrete(durations[k])) =>
           end_dates[k] = DATETIME_MIN

\* C14 (as claimed): within one document, a duration whose end-date candidate
\* is Present, Current, Now or Ongoing resolves to a value at least as large
\* as that of every concretely dated duration.
C14_Original ==
  \A j, k \in 1..Len(end_dates) :
     (IsOpenEnded(durations[j]) /\ IsConcrete(durations[k])) =>
        end_dates[j] >= end_dates[k]

\* C15 (as claimed): normalize_text is idempotent: normalising a text that
\* normalize_text returned gives that text again.
C15_Original ==
  Len(norm_outs) >= 2 => norm_outs[2] = norm_outs[1]

\* the whole line, ignoring surrounding whitespace and letter case, is one of
\* the synonyms of section sec
IsHeadingOf(l, sec) ==
  Matches(Cat(<<Bol, Star(ws), Alt(synonyms(sec)), Star(ws), Eol>>), l)

IsHeadingLine(l) == \E k \in 1..Len(SECTIONS) : IsHeadingOf(l, SECTIONS[k])

IsMarkerLine(l) ==
  \E k \in 1..Len(SECTIONS) : l = <<EQ, SP, SECTIONS[k], SP, EQ>>

\* C16 (as claimed): _mark_sections replaces a line by the marker of section
\* S exactly when the whole line is a synonym of S, wherever the line stands;
\* every other line stays (blank lines aside, the lines of the marked text
\* are the lines of the text, each heading line replaced by its marker).
C16_Original ==
  pc # "mark" =>
    /\ Len(TrimmedLines(marked_text)) = Len(TrimmedLines(text))
    /\ \A k \in 1..Len(TrimmedLines(text)) :
         LET l == TrimmedLines(text)[k]
             m == TrimmedLines(marked_text)[k]
         IN  IF IsHeadingLine(l)
             THEN \E j \in 1..Len(SECTIONS) :
                    IsHeadingOf(l, SECTIONS[j]) /\ m = <<EQ, SP, SECTIONS[j], SP, EQ>>
             ELSE m = l

\* outl is inl with some of its heading lines left out
RECURSIVE HeadingsRemoved(_, _)
HeadingsRemoved(outl, inl) ==
  IF inl = <<>> THEN outl = <<>>
  ELSE \/ outl # <<>> /\ Head(outl) = Head(inl)
          /\ HeadingsRemoved(Tail(outl), Tail(inl))
       \/ IsHeadingLine(Head(inl)) /\ HeadingsRemoved(outl, Tail(inl))

\* the lines of t that are not marker lines (blank lines aside)
WithoutMarkers(t) ==
  LET content(l) == ~IsMarkerLine(l)
  IN  SelectSeq(TrimmedLines(t), content)

\* C17 (as claimed): the marked text without its marker lines is, line for
\* line, the text without its heading lines: no other line is altered,
\* dropped, merged or moved, and a marker has a line to itself.
C17_Original ==
  pc # "mark" =>
    /\ HeadingsRemoved(WithoutMarkers(marked_text), TrimmedLines(text))
    /\ \A k \in 1..Len(TrimmedLines(marked_text)) :
         EQ \in Range(TrimmedLines(marked_text)[k]) =>
            IsMarkerLine(TrimmedLines(marked_text)[k])

\* the sections whose synonym list matches the whole line, in each table
SectionsOf(l) == {sec \in Range(SECTIONS) : IsHeadingOf(l, sec)}

ConfigSectionsOf(l) ==
  {sec \in Range(CONFIG_SECTIONS) :
     Matches(Cat(<<Bol, Star(ws), Alt(SECTION_SYNONYMS(sec)), Star(ws), Eol>>), l)}

\* C18 (as claimed): no line is a synonym of more than one section, in the
\* table of _mark_sections and in SECTION_SYNONYMS alike.
C18_Original ==
  \A k \in 1..Len(TrimmedLines(text)) :
     /\ Cardinality(SectionsOf(TrimmedLines(text)[k])) <= 1
     /\ Cardinality(ConfigSectionsOf(TrimmedLines(text)[k])) <= 1

\* C19: every role the structurer builds has a non-empty Position or a
\* non-empty Responsibilities list, whatever the input lines are.
C19_NonEmptyEntry ==
  \A k \in 1..Len(items) :
     items[k].Position # <<>> \/ items[k].Responsibilities # <<>>

\* two roles returned, the first without any responsibility line
C19_Witness ==
  /\ pc = "structured" /\ Len(items) = 2
  /\ items[1].Responsibilities = <<>> /\ items[1].Position # <<>>
  /\ items[2].Responsibilities # <<>>

\* how many entries of the log are thread t's
Entries(t) == Cardinality({k \in 1..Len(log) : log[k] = t})

\* C20: the appends to the response log are mutually exclusive (at most one
\* thread has the file open, and only the holder of file_lock), a thread that
\* has left call_openai_api, by return or by exception, does not hold the
\* lock, a call that returned has its entry in the log, and every thread that
\* obtained a response gets its turn: it eventually leaves the function,
\* having appended its entry unless opening or writing the file failed.
C20_LogLock ==
  /\ [](/\ Cardinality(open_files) <= 1
        /\ \A t \in open_files : file_lock = t
        /\ \A t \in Threads :
             /\ thr[t].pc \in {"call", "responded", "returned", "raised"} => file_lock # t
             /\ thr[t].pc = "returned" => Entries(t) = thr[t].calls)
  /\ \A t \in Threads :
       (thr[t].pc = "responded") ~> (thr[t].pc \in {"returned", "raised"})

\* thread 1's write has failed while it holds the lock and has the file open,
\* with thread 2 waiting for the lock
C20_Witness ==
  /\ thr[1].pc = "closing" /\ thr[1].err /\ file_lock = 1 /\ 1 \in open_files
  /\ thr[2].pc = "responded"

\* what extract_experience_lines owes for a text by the tiers' priority: the
\* marker-based slice when it has a line, else the heading-based slice
TierChoice(t) ==
  IF _slice_between_markers(t) # <<>> THEN _slice_between_markers(t)
  ELSE _slice_by_headings(t)

\* C21: the Experience lines follow a strict priority: the Tier-1 slice of the
\* marked text if it has a line, else the Tier-2 slice of the marked text if
\* it has a line, else the same choice for the unmarked text; Tier 2 is
\* computed only after Tier 1 yielded nothing for the same text, and the
\* unmarked text is consulted only after the marked text yielded nothing.
C21_TierPriority ==
  /\ [](/\ pc \notin {"mark", "tier1", "tier2"} =>
             /\ exp_lines = IF TierChoice(marked_text) # <<>>
                            THEN TierChoice(marked_text) ELSE TierChoice(text)
             /\ tier = 2 => _slice_between_markers(full_text) = <<>>
        /\ pc = "tier2" => (tier = 1 /\ lines = <<>>)
        /\ (pc # "mark" /\ src = "text") => TierChoice(marked_text) = <<>>)
  /\ [][(src = "marked" /\ src' = "text") => (pc = "tier2" /\ lines' = <<>>)]_vars

\* both tiers found nothing in the marked text, whose Experience marker is
\* directly followed by another marker, and Tier 2 found lines in the
\* unmarked text
C21_Witness ==
  /\ pc = "outer" /\ src = "text" /\ tier = 2 /\ exp_lines # <<>>
  /\ ExperienceMarkerOffsets(marked_text) # {}

\* the line is one of the stop headings the structurer knows, brackets and
\* letter case aside (a bulleted line such as "- Skills" is not)
KnownStopHeading(l) == HeadingKey(Strip(l)) \in SECTION_NAMES

\* a line at which the responsibilities of the open entry end
Boundary(l) == is_header(l) \/ is_duration_line(Strip(l)) \/ KnownStopHeading(l)

\* C22: while an entry is open, a line is appended to its Responsibilities
\* only if it is no header, duration line or stop heading; at the first such
\* line the entry is closed as it stands, and a closed entry never changes.  A
\* step that consumes a stop-heading line changes no entry, so such a line is
\* never a Position and never a Responsibility.
C22_StopsAtBoundary ==
  /\ [](/\ pc = "outer" => item = NoItem
        /\ \A k \in 1..Len(items) : ~KnownStopHeading(items[k].Position)
        /\ pc = "inner" => ~KnownStopHeading(item.Position))
  /\ [][/\ item'.Responsibilities # item.Responsibilities =>
             \/ pc' = "outer" /\ items' = Append(items, item) /\ i' = i
             \/ /\ pc = "inner" /\ pc' = "inner" /\ i' = i + 1
                /\ ~Boundary(exp_lines[i + 1])
                /\ item' = [item EXCEPT !.Responsibilities =
                                           Append(@, strip_bullet(Strip(exp_lines[i + 1])))]
        /\ (pc = "inner" /\ i < n /\ Strip(exp_lines[i + 1]) # <<>>
              /\ Boundary(exp_lines[i + 1])) =>
             (pc' = "outer" /\ items' = Append(items, item) /\ i' = i)
        /\ Len(items') >= Len(items)
        /\ \A k \in 1..Len(items) : items'[k] = items[k]
        /\ (\E k \in (i + 1)..i' : KnownStopHeading(exp_lines[k])) =>
             (item' = item /\ items' = items)]_vars

\* an entry with one responsibility was closed at a bracketed stop heading,
\* and the lines after the heading, one of them a bulleted "Skills", were
\* dropped
C22_Witness ==
  /\ pc = "structured" /\ Len(exp_lines) = 4
  /\ exp_lines[3] = <<LB, "Skills", RB>> /\ exp_lines[4] = <<HY, SP, "Skills">>
  /\ Len(items) = 1 /\ items[1].Responsibilities = << <<"Led">> >>

\* line k of ls is a header line that is not consumed as the duration of the
\* role opened by the line before it
RECURSIVE OpensRoleAt(_, _)
OpensRoleAt(ls, k) ==
  /\ Strip(ls[k]) # <<>> /\ is_header(ls[k])
  /\ ~(/\ k > 1
       /\ is_duration_line(Strip(ls[k]))
       /\ ParenSpans(Strip(ls[k - 1])) = {}
       /\ OpensRoleAt(ls, k - 1))

\* the indices of those header lines among the first m lines, in order
RoleHeaders(ls, m) ==
  LET hs == {k \in 1..m : OpensRoleAt(ls, k)}
      rank(k) == Cardinality({j \in hs : j <= k})
  IN  [r \in 1..Cardinality(hs) |-> CHOOSE k \in hs : rank(k) = r]

\* the roles built so far, the one in progress included
RolesSoFar == IF pc = "inner" THEN Append(items, item) ELSE items

\* C23: roles are never merged: at every point of the pass there is one role
\* for each header line consumed so far that was not taken as a duration, in
\* the order of those lines, with that line as its Position, and each of its
\* Responsibilities comes from a line between its header line and the next
\* such header line.
C23_RolesNotMerged ==
  pc \in {"outer", "inner", "structured"} =>
    LET hs == RoleHeaders(exp_lines, i)
    IN  /\ Len(RolesSoFar) = Len(hs)
        /\ \A r \in 1..Len(hs) :
             LET last == IF r < Len(hs) THEN hs[r + 1] - 1 ELSE i
                 own == [j \in 1..(last - hs[r]) |->
                           strip_bullet(Strip(exp_lines[hs[r] + j]))]
             IN  /\ RolesSoFar[r].Position = Strip(exp_lines[hs[r]])
                 /\ IsSubseq(RolesSoFar[r].Responsibilities, own)

\* two roles from four lines with no blank line or stop heading between
\* them, each with its own responsibility
C23_Witness ==
  /\ pc = "structured" /\ Len(exp_lines) = 4 /\ Len(items) = 2
  /\ \A k \in 1..4 : exp_lines[k] # <<>>
  /\ exp_lines[1] = exp_lines[3]
  /\ items[1].Responsibilities = << <<"Led">> >>
  /\ items[2].Responsibilities = << <<"Grew">> >>

\* how often e occurs in the list s
Count(s, e) == Cardinality({k \in 1..Len(s) : s[k] = e})

\* out holds the entries of inp, each as often as inp does
IsPermutation(out, inp) ==
  /\ Len(out) = Len(inp)
  /\ \A e \in Range(inp) \cup Range(out) : Count(out, e) = Count(inp, e)

\* C24: each sort_experiences reorders and does not mutate: what the
\* formatter's sort returns is a permutation of the entries it was given, what
\* the renderer's sort returns is a permutation of the formatter's entries, no
\* step of the renderer's sort changes a key or value of an entry other than
\* the temporary '_end_date', and when it returns no entry has that key.
C24_SortKeepsEntries ==
  /\ [](/\ pc \in {"formatted", "popping", "popped", "inserted", "rendered", "raised"} =>
             IsPermutation(data.Experience, raw_data.Experience)
        /\ pc \in {"popping", "popped"} => IsPermutation(SortedItems, data.Experience)
        /\ pc \in {"inserted", "rendered", "raised"} =>
             /\ IsPermutation(SortedItems, data.Experience)
             /\ \A j \in 1..Len(_end_date) : ~_end_date[j].has)
  /\ [][(pc \in {"formatted", "popping", "popped"}) => (data' = data)]_vars

\* three entries were put in a new order by the renderer's sort, each had the
\* '_end_date' key in between, and none has it now
C24_Witness ==
  /\ pc = "inserted" /\ Len(SortedItems) = 3 /\ Len(_end_date) = 3
  /\ SortedItems # data.Experience
  /\ \A j \in 1..3 : ~_end_date[j].has

\* C25 (as claimed): with an empty Experience list the renderer inserts no
\* role or bullet paragraph, removes the placeholder paragraph once and
\* completes without raising, whether the placeholder paragraph is in the
\* document body or in a table cell.
C25_Original ==
  (data.Experience = <<>> /\ pc \in {"inserted", "rendered", "raised"}) =>
     /\ rendered = <<>>
     /\ parent = "None"
     /\ pc # "raised"

\* C26 (as claimed): no role has a standalone duration line (a line matching
\* the date-range pattern) as its Position, wherever the line stands in the
\* input.
C26_Original ==
  \A k \in 1..Len(items) : ~is_duration_line(items[k].Position)

\* C27 (as claimed): every Duration the structurer stores is resolved to a
\* date other than the minimum date by the resolvers the two sorts use:
\* parse_end_date and the formatter's _best_effort_end_dt.
C27_Original ==
  \A k \in 1..Len(items) :
     items[k].Duration # <<>> =>
        /\ parse_end_date(items[k].Duration, 1) # DATETIME_MIN
        /\ _best_effort_end_dt(items[k], 1) # DATETIME_MIN

\* C28 (as claimed): the two sorters agree: the renderer's sort_experiences
\* leaves the order the formatter's sort_experiences produced unchanged.
C28_Original ==
  (pc = "rendered" /\ data.Experience # <<>>) => rendered = data.Experience

\* the lines of ls before its first stop-heading line
BeforeStop(ls) ==
  LET stops == {k \in 1..Len(ls) : HeadingKey(ls[k]) \in STOP_HEADINGS}
  IN  IF stops = {} THEN ls ELSE SubSeq(ls, 1, Min(stops) - 1)

\* C29 (as claimed): the marker _mark_sections emits for Experience is the
\* string the slicer searches for, the marker it emits for every section
\* matches the slicer's next-marker pattern, and so the Tier-1 slice of a
\* marked text runs from its Experience marker to the following section's
\* marker (or to a stop heading before it, or to the end of the text).
C29_Original ==
  /\ Find(MarkerLine("Experience"), MARKER_START) # -1
  /\ \A k \in 1..Len(SECTIONS) :
       Ends(MARKER_PATTERN, Strip(MarkerLine(SECTIONS[k])), {0}) = {5}
  /\ (src = "marked" /\ tier = 1 /\ pc # "tier1"
        /\ ExperienceMarkerOffsets(marked_text) # {}) =>
       LET s == Min(ExperienceMarkerOffsets(marked_text))
           later == {p \in MarkerOffsets(marked_text) : p > s}
           end == IF later = {} THEN Len(marked_text) ELSE Min(later)
       IN  lines = BeforeStop(TrimmedLines(Slice(marked_text, s + 5, end)))

\* lines that the roles in its hold: one for each Position and one for each
\* responsibility
RECURSIVE LinesHeld(_)
LinesHeld(its) ==
  IF its = <<>> THEN 0
  ELSE 1 + Len(Head(its).Responsibilities) + LinesHeld(Tail(its))

\* C30: _structure_experience_from_lines terminates. The index stays within
\* 0..n over an unchanged list of lines; every iteration of the outer loop
\* starts by moving the index forward (by one, or by two when the header takes
\* the next line as its duration), every inner step that keeps collecting
\* moves it forward by one, and the inner loop's break leaves it where it is,
\* on the line the next outer iteration consumes; the roles never hold more
\* lines than the index has passed, so no line is used twice; the pass, run
\* to its end, returns, and it returns with the index equal to n.
C30_Terminates ==
  /\ [](i \in 0..n)
  /\ [](LinesHeld(items) + (IF pc = "inner" THEN LinesHeld(<<item>>) ELSE 0) <= i)
  /\ [](pc = "structured" => i = n)
  /\ [][exp_lines' = exp_lines]_vars
  /\ [][(pc = "outer" /\ i < n) => (i' \in {i + 1, i + 2} /\ pc' \in {"outer", "inner"})]_vars
  /\ [][(pc = "outer" /\ i' = i + 2) =>
          (pc' = "inner" /\ i + 2 <= n /\ is_duration_line(Strip(exp_lines[i + 2])))]_vars
  /\ [][(pc = "inner" /\ pc' = "inner") => (i' = i + 1)]_vars
  /\ [][(pc = "inner" /\ pc' # "inner") =>
          (pc' = "outer" /\ i' = i /\ (i < n => InnerStops(Strip(exp_lines[i + 1]))))]_vars
  /\ <>(pc = "structured")

\* three lines were passed, the last role's inner loop stopped at a header it
\* did not consume, and the pass returned with all n lines passed
C30_Witness ==
  /\ pc = "structured" /\ i = n /\ n = 3
  /\ Len(items) = 2
  /\ Len(items[1].Responsibilities) = 1
  /\ is_header(exp_lines[3])

====
